---- MODULE Spec2Model ----
(***************************************************************************)
(* The React front ends of the gamification platform: the admin components *)
(* of reactjs_frontend (UserManagement, AssignQuest, QuestManagement,      *)
(* RewardManagement, Signup), the gateway App of reactjs_frontend, and the *)
(* fe-quest App with its QuestStatus component.                            *)
(*                                                                         *)
(* The components share no state, so a behaviour follows ONE mounted       *)
(* component, chosen by Init (comp).  st is that component's useState      *)
(* state, net the requests in flight (issued, not yet answered) in the     *)
(* order they were issued, localStorage the browser storage, hist the      *)
(* observer's counters and the response the last step delivered.  role     *)
(* says who uses the gateway App in this behaviour: an admin, who works    *)
(* the reward and quest forms of the admin panel, or a player, who signs   *)
(* up, logs in and works the quest tab.                                    *)
(*                                                                         *)
(* A handler is a function of the "world" [st, net, ls, h]: its part up to *)
(* the first await is one operator, its part after the await (the promise  *)
(* continuation, run when the response is delivered) another.              *)
(***************************************************************************)
EXTENDS Integers, Sequences, FiniteSets, TLC

VARIABLES comp, role, st, net, localStorage, hist, srv

vars == <<comp, role, st, net, localStorage, hist, srv>>

(* Bound of the model: the user's events, i.e. clicks (submits, tab       *)
(* switches and page reloads included) and bursts of typing.              *)
MaxEvents == 3

(* Bound of the quest-processing service's model: the largest streak of   *)
(* a quest.                                                               *)
MaxStreak == 3

----------------------------------------------------------------------------
(* JavaScript values *)

(* A number is [nan, n]; NaN is what parseInt gives for a non-number. *)
Num(n) == [nan |-> FALSE, n |-> n]
NaN == [nan |-> TRUE, n |-> 0]

(* An input's text is a tuple of characters. *)
Digits == <<"0", "1", "2", "3", "4", "5", "6", "7", "8", "9">>
IsDigit(c) == \E d \in 1..10 : Digits[d] = c
DigitVal(c) == (CHOOSE d \in 1..10 : Digits[d] = c) - 1

RECURSIVE SkipSpace(_)
SkipSpace(s) ==
  IF s # <<>> /\ Head(s) = " " THEN SkipSpace(Tail(s)) ELSE s

RECURSIVE DigitPrefix(_)
DigitPrefix(s) ==
  IF s # <<>> /\ IsDigit(Head(s))
  THEN <<Head(s)>> \o DigitPrefix(Tail(s))
  ELSE <<>>

RECURSIVE DecVal(_, _)
DecVal(s, acc) ==
  IF s = <<>> THEN acc ELSE DecVal(Tail(s), 10 * acc + DigitVal(Head(s)))

(* parseInt(text): leading blanks, a sign, then the longest run of decimal *)
(* digits; what follows the digits is ignored, no digit at all gives NaN. *)
(* (A 0x prefix selects base 16; no input of the model carries one.)      *)
ParseInt(s) ==
  LET t == SkipSpace(s)
      neg == t # <<>> /\ Head(t) = "-"
      u == IF t # <<>> /\ Head(t) \in {"+", "-"} THEN Tail(t) ELSE t
      d == DigitPrefix(u)
  IN IF d = <<>> THEN NaN
     ELSE Num(IF neg THEN 0 - DecVal(d, 0) ELSE DecVal(d, 0))

RECURSIVE NatToStr(_)
NatToStr(n) ==
  IF n < 10 THEN <<Digits[n + 1]>>
  ELSE NatToStr(n \div 10) \o <<Digits[(n % 10) + 1]>>

(* String(number) *)
ToStr(v) ==
  IF v.nan THEN <<"N", "a", "N">>
  ELSE IF v.n < 0 THEN <<"-">> \o NatToStr(0 - v.n) ELSE NatToStr(v.n)

(* parseInt(number) converts the number to its text first. *)
ParseIntNum(n) == ParseInt(ToStr(Num(n)))

(* response.data of a list endpoint: an array of items, or something else *)
(* (an object), for which Array.isArray is false and .length undefined.   *)
Arr(items) == [isArray |-> TRUE, items |-> items]
NotArr == [isArray |-> FALSE, items |-> <<>>]
IsArray(d) == d.isArray
LengthPositive(d) == d.isArray /\ Len(d.items) > 0

(* localStorage holds at most the key "token". *)
GetItem(ls) == IF ls.has THEN <<ls.token>> ELSE <<>>
SetItem(ls, v) == [has |-> TRUE, token |-> v]
RemoveItem(ls) == [has |-> FALSE, token |-> <<>>]
EmptyStorage == [has |-> FALSE, token |-> <<>>]

(* A token is the tuple of its "."-separated segments; the empty string   *)
(* is <<>>.  token.split(".")[1] is its second segment, undefined when it *)
(* has none; atob and JSON.parse throw on what is not base64 of JSON.     *)
(* P1 and P2 stand for the base64 of {"user_id": 1} and {"user_id": 2},   *)
(* PNoId for the base64 of a payload without user_id.                     *)
P1 == "eyJ1c2VyX2lkIjoxfQ"
P2 == "eyJ1c2VyX2lkIjoyfQ"
PNoId == "eyJzdWIiOiJ4In0"
NoToken == <<>>
Token1 == <<"h", P1, "s">>
Token2 == <<"h", P2, "s">>
TokenNoId == <<"h", PNoId, "s">>
TokenBad == <<"garbage">>

SplitPayload(token) == IF Len(token) >= 2 THEN token[2] ELSE "undefined"

(* JSON.parse(atob(payload)): threw, or the decoded object's user_id      *)
(* (0 when it has none). *)
DecodePayload(payload) ==
  CASE payload = P1 -> [threw |-> FALSE, user_id |-> 1]
    [] payload = P2 -> [threw |-> FALSE, user_id |-> 2]
    [] payload = PNoId -> [threw |-> FALSE, user_id |-> 0]
    [] OTHER -> [threw |-> TRUE, user_id |-> 0]

(* An error axios rejects with: an HTTP error carries a response whose     *)
(* data may hold `detail`; a network error carries no response at all.    *)
HttpDetail == [hasResponse |-> TRUE, detail |-> "detail", message |-> "Request failed"]
HttpNoDetail == [hasResponse |-> TRUE, detail |-> "", message |-> "Request failed"]
NetworkError == [hasResponse |-> FALSE, detail |-> "", message |-> "Network Error"]
Errors == {HttpDetail, HttpNoDetail, NetworkError}

----------------------------------------------------------------------------
(* The world a handler runs in *)

World == [st |-> st, net |-> net, ls |-> localStorage, h |-> hist]

NoBody == [none |-> TRUE]
NoResp == [none |-> TRUE]

(* axios.get / axios.post: the request is sent and stays in net until its *)
(* response is delivered; id numbers the requests in the order they were  *)
(* issued, `by` names the handler whose continuation awaits the response, *)
(* `cl` holds what that continuation closes over.                         *)
Issue(w, method, url, body, by, cl) ==
  [w EXCEPT !.net = Append(@, [id |-> w.h.issued + 1, method |-> method,
                                url |-> url, body |-> body, by |-> by, cl |-> cl]),
            !.h.issued = @ + 1,
            !.h.posts = IF method = "POST" THEN @ + 1 ELSE @,
            !.h.overlapped = @ \/ w.net # <<>>]

NoClosure == [none |-> TRUE]

(* The observer's note on the request just issued: the continuation that *)
(* issued it.                                                            *)
IssuedAfter(w, by) == [w EXCEPT !.net[Len(w.net)].cl = [after |-> by]]

(* One or more onChange events of a form: each sets its own field. *)
Override(base, upd) ==
  [f \in DOMAIN base |-> IF f \in DOMAIN upd THEN upd[f] ELSE base[f]]

(* The observer's record that a submit passed its handler's guard. *)
Passed(w) == [w EXCEPT !.h.submits = @ + 1]

(* The observer's record that an async handler's promise rejected. *)
Rejected(w, by) == [w EXCEPT !.h.rejected = @ \cup {by}]

----------------------------------------------------------------------------
(* UserManagement (reactjs_frontend/src/components/UserManagement.jsx) *)

UM == "UserManagement"

UM_init == [users |-> Arr(<<>>), userName |-> "", userStatus |-> <<>>]

UM_onChange(w, upd) == [w EXCEPT !.st = Override(@, upd)]

UM_fetchUsers(w) == Issue(w, "GET", <<"http://localhost:8000/users">>, NoBody, "UM.fetchUsers", NoClosure)

(* fetchUsers that applies only the answer to the latest request. *)
UM_fetchUsers_ok_latestOnly(w, r, data) ==
  IF IsArray(data) /\ r.id = w.h.issued THEN [w EXCEPT !.st.users = data] ELSE w

UM_fetchUsers_ok(w, r, data) ==
  IF IsArray(data) THEN [w EXCEPT !.st.users = data] ELSE w

UM_fetchUsers_catch(w, r, error) == w

UM_useEffect(w) == UM_fetchUsers(w)

(* addUser that skips the POST when the same one is still in flight. *)
UM_addUser_dedup(w) ==
  LET body == [user_name |-> w.st.userName, status |-> ParseInt(w.st.userStatus)]
  IN IF \E i \in 1..Len(w.net) : w.net[i].by = "UM.addUser" /\ w.net[i].body = body
     THEN Passed(w)
     ELSE Issue(Passed(w), "POST", <<"http://localhost:8000/users">>, body,
                "UM.addUser", NoClosure)

UM_addUser(w) ==
  Issue(Passed(w), "POST", <<"http://localhost:8000/users">>,
        [user_name |-> w.st.userName, status |-> ParseInt(w.st.userStatus)],
        "UM.addUser", NoClosure)

(* addUser that resets the form and never calls fetchUsers. *)
UM_addUser_ok_noRefetch(w, r, data) ==
  [w EXCEPT !.st.userName = "", !.st.userStatus = <<>>]

UM_addUser_ok(w, r, data) ==
  UM_fetchUsers([w EXCEPT !.st.userName = "", !.st.userStatus = <<>>])

UM_addUser_catch(w, r, error) == w

----------------------------------------------------------------------------
(* AssignQuest (reactjs_frontend/src/components/AssignQuest.js) *)

AQ == "AssignQuest"

AQ_init == [users |-> Arr(<<>>), quests |-> Arr(<<>>),
            selectedUser |-> <<>>, selectedQuest |-> <<>>]

AQ_onChange(w, upd) == [w EXCEPT !.st = Override(@, upd)]

AQ_fetchUsers(w) == Issue(w, "GET", <<"http://localhost:8000/users">>, NoBody, "AQ.fetchUsers", NoClosure)

AQ_fetchUsers_ok(w, r, data) ==
  IF IsArray(data) THEN [w EXCEPT !.st.users = data] ELSE w

AQ_fetchUsers_catch(w, r, error) == w

AQ_fetchQuests(w) == Issue(w, "GET", <<"http://localhost:8000/quests">>, NoBody, "AQ.fetchQuests", NoClosure)

AQ_fetchQuests_ok(w, r, data) ==
  IF IsArray(data) THEN [w EXCEPT !.st.quests = data] ELSE w

AQ_fetchQuests_catch(w, r, error) == w

AQ_useEffect(w) == AQ_fetchQuests(AQ_fetchUsers(w))

AQ_assignQuest(w) ==
  Issue(Passed(w), "POST", <<"http://localhost:8000/assign-quest">>,
        [user_id |-> ParseInt(w.st.selectedUser),
         quest_id |-> ParseInt(w.st.selectedQuest)],
        "AQ.assignQuest", NoClosure)

AQ_assignQuest_ok(w, r, data) ==
  [w EXCEPT !.st.selectedUser = <<>>, !.st.selectedQuest = <<>>]

AQ_assignQuest_catch(w, r, error) == w

----------------------------------------------------------------------------
(* QuestManagement (reactjs_frontend/src/components/QuestManagement.js).  *)
(* streak and duplication start as the number 0 and hold the input's text *)
(* afterwards; parseInt reads both through their text, so they are kept   *)
(* as text throughout.                                                    *)

QM == "QuestManagement"

QM_init == [quests |-> Arr(<<>>), questName |-> "", questDescription |-> "",
            rewardId |-> <<>>, autoClaim |-> FALSE,
            streak |-> <<"0">>, duplication |-> <<"0">>]

QM_onChange(w, upd) == [w EXCEPT !.st = Override(@, upd)]

QM_fetchQuests(w) == Issue(w, "GET", <<"http://localhost:8000/quests">>, NoBody, "QM.fetchQuests", NoClosure)

QM_fetchQuests_ok(w, r, data) ==
  IF IsArray(data) THEN [w EXCEPT !.st.quests = data] ELSE w

QM_fetchQuests_catch(w, r, error) == w

(* A mount effect that fetches nothing. *)
QM_useEffect_none(w) == w

QM_useEffect(w) == QM_fetchQuests(w)

QM_addQuest(w) ==
  Issue(Passed(w), "POST", <<"http://localhost:8000/quests">>,
        [reward_id |-> ParseInt(w.st.rewardId),
         auto_claim |-> w.st.autoClaim,
         streak |-> ParseInt(w.st.streak),
         duplication |-> ParseInt(w.st.duplication),
         name |-> w.st.questName,
         description |-> w.st.questDescription],
        "QM.addQuest", NoClosure)

QM_addQuest_ok(w, r, data) ==
  QM_fetchQuests([w EXCEPT !.st.questName = "", !.st.questDescription = "",
                           !.st.rewardId = <<>>, !.st.autoClaim = FALSE,
                           !.st.streak = <<"0">>, !.st.duplication = <<"0">>])

(* A catch block that posts the request again. *)
QM_addQuest_catch_retry(w, r, error) == Issue(w, "POST", r.url, r.body, r.by, r.cl)

QM_addQuest_catch(w, r, error) == w

----------------------------------------------------------------------------
(* RewardManagement (reactjs_frontend/src/components/RewardManagement.js) *)

RM == "RewardManagement"

RM_init == [rewards |-> Arr(<<>>), rewardName |-> "", rewardItem |-> "",
            rewardQty |-> <<"0">>]

RM_onChange(w, upd) == [w EXCEPT !.st = Override(@, upd)]

RM_fetchRewards(w) == Issue(w, "GET", <<"http://localhost:8000/rewards">>, NoBody, "RM.fetchRewards", NoClosure)

(* A continuation that stores whatever the response holds. *)
RM_fetchRewards_ok_unchecked(w, r, data) == [w EXCEPT !.st.rewards = data]

RM_fetchRewards_ok(w, r, data) ==
  IF IsArray(data) THEN [w EXCEPT !.st.rewards = data] ELSE w

RM_fetchRewards_catch(w, r, error) == w

RM_useEffect(w) == RM_fetchRewards(w)

(* addReward that sends the quantity the input started with. *)
RM_addReward_initialQty(w) ==
  Issue(Passed(w), "POST", <<"http://localhost:8000/rewards">>,
        [reward_name |-> w.st.rewardName,
         reward_item |-> w.st.rewardItem,
         reward_qty |-> ParseInt(<<"0">>)],
        "RM.addReward", NoClosure)

RM_addReward(w) ==
  Issue(Passed(w), "POST", <<"http://localhost:8000/rewards">>,
        [reward_name |-> w.st.rewardName,
         reward_item |-> w.st.rewardItem,
         reward_qty |-> ParseInt(w.st.rewardQty)],
        "RM.addReward", NoClosure)

RM_addReward_ok(w, r, data) ==
  RM_fetchRewards([w EXCEPT !.st.rewardName = "", !.st.rewardItem = "",
                            !.st.rewardQty = <<"0">>])

RM_addReward_catch(w, r, error) == w

----------------------------------------------------------------------------
(* Signup (reactjs_frontend/src/components/Signup.js).  onUserIdSet is the *)
(* parent's callback; what it stores is kept in parentUserId (0: unset).   *)

SU == "Signup"

SU_init == [username |-> "", password |-> "", message |-> "", parentUserId |-> 0]

SU_onChange(w, upd) == [w EXCEPT !.st = Override(@, upd)]

SU_handleSignup(w) ==
  Issue(Passed(w), "POST", <<"http://localhost:8001/signup">>,
        [username |-> w.st.username, password |-> w.st.password],
        "SU.handleSignup", NoClosure)

(* A continuation that also stores the issued token, as the Apps do. *)
SU_handleSignup_ok_storesToken(w, r, data) ==
  [w EXCEPT !.ls = SetItem(@, data.access_token),
            !.st.parentUserId = data.user_id,
            !.st.message = "Signup successful!"]

SU_handleSignup_ok(w, r, data) ==
  [w EXCEPT !.st.parentUserId = data.user_id,
            !.st.message = "Signup successful!"]

(* error.response.data.detail || "Signup failed.": reading .data of an    *)
(* undefined response throws inside the catch block, so the handler's     *)
(* promise rejects and setMessage never runs.                             *)
SU_handleSignup_catch(w, r, error) ==
  IF ~error.hasResponse THEN Rejected(w, "SU.handleSignup")
  ELSE [w EXCEPT !.st.message =
                   IF error.detail # "" THEN error.detail ELSE "Signup failed."]

----------------------------------------------------------------------------
(* QuestStatus (fe-quest/src/QuestStatus.jsx); userId is its prop. *)

QS == "QuestStatus"

QS_init(userId) == [userId |-> userId, quests |-> Arr(<<>>)]

QS_fetchQuests(w) ==
  Issue(w, "GET", <<"http://localhost:8003/user-quests/", w.st.userId>>,
        NoBody, "QS.fetchQuests", NoClosure)

QS_fetchQuests_ok(w, r, data) == [w EXCEPT !.st.quests = data]

QS_fetchQuests_catch(w, r, error) == w

(* useEffect(..., [userId]): on mount and whenever the prop changes. *)
QS_useEffect(w) == QS_fetchQuests(w)

QS_setProp(w, userId) == QS_useEffect([w EXCEPT !.st.userId = userId])

----------------------------------------------------------------------------
(* The gateway App (reactjs_frontend/src/App.jsx, every call to           *)
(* API_GATEWAY_URL).  user is <<>> for null and <<u>> for the object u;   *)
(* timers counts the pending setTimeout callbacks of showMessage.         *)

GA == "GatewayApp"
API_GATEWAY_URL == "http://localhost:8000"

NoMessage == [text |-> "", type |-> ""]

GA_signupInit == [username |-> "", password |-> ""]
GA_loginInit == [username |-> "", password |-> ""]
GA_rewardFormInit == [reward_name |-> "", reward_item |-> "", reward_qty |-> Num(10)]
GA_questFormInit ==
  [reward_id |-> <<>>, auto_claim |-> FALSE, streak |-> Num(1),
   duplication |-> Num(1), name |-> "", description |-> ""]

GA_init(ls) ==
  [signupData |-> GA_signupInit,
   loginData |-> GA_loginInit,
   token |-> IF GetItem(ls) # <<>> THEN GetItem(ls)[1] ELSE NoToken,
   user |-> <<>>,
   message |-> NoMessage,
   rewards |-> Arr(<<>>),
   rewardForm |-> GA_rewardFormInit,
   quests |-> Arr(<<>>),
   questForm |-> GA_questFormInit,
   userQuests |-> Arr(<<>>),
   activeTab |-> "admin",
   timers |-> 0]

(* showMessage without its setTimeout. *)
GA_showMessage_noTimer(w, msg, type) ==
  [w EXCEPT !.st.message = [text |-> msg, type |-> type]]

GA_showMessage(w, msg, type) ==
  [w EXCEPT !.st.message = [text |-> msg, type |-> type],
            !.st.timers = @ + 1]

(* The setTimeout callback of showMessage. *)
GA_timeout(w) ==
  [w EXCEPT !.st.message = NoMessage, !.st.timers = @ - 1]

(* error.response?.data.detail || error.message *)
ErrText(error) ==
  IF error.hasResponse /\ error.detail # "" THEN error.detail ELSE error.message

GA_fetchUser(w, user_id) ==
  Issue(w, "GET", <<API_GATEWAY_URL \o "/users/", user_id>>, NoBody,
        "GA.fetchUser", NoClosure)

GA_fetchUser_ok(w, r, data) == [w EXCEPT !.st.user = <<data>>]

GA_fetchUser_catch(w, r, error) ==
  GA_showMessage(w, "Error fetching user data", "error")

(* useEffect(..., [token]) *)
(* The token effect without the catch block's clearing (as the fe-quest   *)
(* App decodes).                                                          *)
GA_useEffect_keepsUndecodable(w) ==
  IF w.st.token = NoToken THEN w
  ELSE LET decoded == DecodePayload(SplitPayload(w.st.token))
       IN IF ~decoded.threw /\ decoded.user_id # 0
          THEN GA_fetchUser(w, decoded.user_id)
          ELSE w

GA_useEffect(w) ==
  IF w.st.token = NoToken THEN w
  ELSE LET decoded == DecodePayload(SplitPayload(w.st.token))
       IN IF decoded.threw
          THEN [w EXCEPT !.st.token = NoToken, !.ls = RemoveItem(@)]
          ELSE IF decoded.user_id # 0 THEN GA_fetchUser(w, decoded.user_id)
          ELSE w

(* React runs the token effect after a render in which token changed. *)
GA_render(before, after) ==
  IF after.st.token # before.st.token THEN GA_useEffect(after) ELSE after

GA_handleSignup(w) ==
  Issue(Passed(w), "POST", <<API_GATEWAY_URL \o "/signup">>, w.st.signupData,
        "GA.handleSignup", NoClosure)

GA_handleSignup_ok(w, r, data) ==
  GA_showMessage([w EXCEPT !.st.token = data.access_token,
                           !.ls = SetItem(@, data.access_token),
                           !.st.signupData = GA_signupInit],
                 "Signup successful!", "success")

GA_handleSignup_catch(w, r, error) ==
  GA_showMessage(w, "Signup failed: " \o ErrText(error), "error")

GA_handleLogin(w) ==
  Issue(Passed(w), "POST", <<API_GATEWAY_URL \o "/login">>, w.st.loginData,
        "GA.handleLogin", NoClosure)

GA_handleLogin_ok(w, r, data) ==
  GA_showMessage([w EXCEPT !.st.token = data.access_token,
                           !.ls = SetItem(@, data.access_token),
                           !.st.loginData = GA_loginInit,
                           !.st.activeTab = "quests"],
                 "Login successful!", "success")

GA_handleLogin_catch(w, r, error) ==
  GA_showMessage(w, "Login failed: " \o ErrText(error), "error")

(* handleLogout that leaves the token in localStorage. *)
GA_handleLogout_keepsStored(w) ==
  GA_showMessage([w EXCEPT !.st.token = NoToken,
                           !.st.user = <<>>,
                           !.st.userQuests = Arr(<<>>),
                           !.st.activeTab = "admin"],
                 "Logged out successfully!", "success")

GA_handleLogout(w) ==
  GA_showMessage([w EXCEPT !.st.token = NoToken,
                           !.ls = RemoveItem(@),
                           !.st.user = <<>>,
                           !.st.userQuests = Arr(<<>>),
                           !.st.activeTab = "admin"],
                 "Logged out successfully!", "success")

GA_fetchRewards(w) ==
  Issue(w, "GET", <<API_GATEWAY_URL \o "/rewards/">>, NoBody,
        "GA.fetchRewards", NoClosure)

GA_fetchRewards_ok(w, r, data) ==
  GA_showMessage([w EXCEPT !.st.rewards = data],
                 "Rewards fetched successfully!", "success")

GA_fetchRewards_catch(w, r, error) ==
  GA_showMessage(w, "Error fetching rewards", "error")

GA_createReward(w) ==
  Issue(Passed(w), "POST", <<API_GATEWAY_URL \o "/rewards/">>, w.st.rewardForm,
        "GA.createReward", NoClosure)

GA_createReward_ok(w, r, data) ==
  GA_fetchRewards(
    GA_showMessage([w EXCEPT !.st.rewardForm = GA_rewardFormInit],
                   "Reward created successfully!", "success"))

GA_createReward_catch(w, r, error) ==
  GA_showMessage(w, "Error creating reward: " \o ErrText(error), "error")

GA_fetchQuests(w) ==
  Issue(w, "GET", <<API_GATEWAY_URL \o "/quests/">>, NoBody,
        "GA.fetchQuests", NoClosure)

GA_fetchQuests_ok(w, r, data) ==
  GA_showMessage([w EXCEPT !.st.quests = data],
                 "Quests fetched successfully!", "success")

GA_fetchQuests_catch(w, r, error) ==
  GA_showMessage(w, "Error fetching quests", "error")

(* parseInt of a number reads it through its text. *)
GA_createQuest(w) ==
  Issue(Passed(w), "POST", <<API_GATEWAY_URL \o "/quests/">>,
        [w.st.questForm EXCEPT
           !.reward_id = ParseInt(w.st.questForm.reward_id),
           !.streak = ParseInt(ToStr(w.st.questForm.streak)),
           !.duplication = ParseInt(ToStr(w.st.questForm.duplication))],
        "GA.createQuest", NoClosure)

GA_createQuest_ok(w, r, data) ==
  GA_fetchQuests(
    GA_showMessage([w EXCEPT !.st.questForm = GA_questFormInit],
                   "Quest created successfully!", "success"))

(* A catch block that also clears the form. *)
GA_createQuest_catch_clears(w, r, error) ==
  GA_showMessage([w EXCEPT !.st.questForm = GA_questFormInit],
                 "Error creating quest: " \o ErrText(error), "error")

GA_createQuest_catch(w, r, error) ==
  GA_showMessage(w, "Error creating quest: " \o ErrText(error), "error")

(* fetchUserQuests as created by the render whose `user` is given: the   *)
(* button calls the current render's, a continuation its own render's.    *)
GA_fetchUserQuests(w, user) ==
  IF user = <<>> THEN GA_showMessage(w, "Please log in first", "error")
  ELSE Issue(w, "GET", <<API_GATEWAY_URL \o "/user-quests/", user[1].user_id, "/">>,
             NoBody, "GA.fetchUserQuests", NoClosure)

GA_fetchUserQuests_ok(w, r, data) ==
  GA_showMessage([w EXCEPT !.st.userQuests = data],
                 "Your quests fetched successfully!", "success")

GA_fetchUserQuests_catch(w, r, error) ==
  GA_showMessage(w, "Error fetching your quests", "error")

GA_assignQuest(w, quest_id) ==
  IF w.st.user = <<>> THEN GA_showMessage(w, "Please log in first", "error")
  ELSE Issue(Passed(w), "POST", <<API_GATEWAY_URL \o "/assign-quest/">>,
             [user_id |-> w.st.user[1].user_id, quest_id |-> ParseIntNum(quest_id)],
             "GA.assignQuest", [user |-> w.st.user])

GA_assignQuest_ok(w, r, data) ==
  GA_fetchUserQuests(GA_showMessage(w, "Quest assigned successfully!", "success"),
                     r.cl.user)

GA_assignQuest_catch(w, r, error) ==
  GA_showMessage(w, "Error assigning quest: " \o ErrText(error), "error")

GA_completeQuest(w, quest_id) ==
  IF w.st.user = <<>> THEN GA_showMessage(w, "Please log in first", "error")
  ELSE Issue(Passed(w), "POST", <<API_GATEWAY_URL \o "/complete-quest/">>,
             [user_id |-> w.st.user[1].user_id, quest_id |-> quest_id],
             "GA.completeQuest", [user |-> w.st.user])

(* An optimistic update: the entry of the completed quest is edited in    *)
(* place before the list is fetched again.                                *)
MarkLocally(uqs, quest_id, status) ==
  IF ~IsArray(uqs) THEN uqs
  ELSE Arr([i \in 1..Len(uqs.items) |->
              IF uqs.items[i].quest_id = quest_id
              THEN [uqs.items[i] EXCEPT !.status = status] ELSE uqs.items[i]])

GA_completeQuest_ok_optimistic(w, r, data) ==
  IssuedAfter(
    GA_fetchUser(
      GA_fetchUserQuests(
        GA_showMessage([w EXCEPT !.st.userQuests =
                                   MarkLocally(@, r.body.quest_id, "completed")],
                       "Quest progress updated!", "success"),
        r.cl.user),
      r.cl.user[1].user_id),
    r.by)

GA_completeQuest_ok(w, r, data) ==
  IssuedAfter(
    GA_fetchUser(
      GA_fetchUserQuests(GA_showMessage(w, "Quest progress updated!", "success"),
                         r.cl.user),
      r.cl.user[1].user_id),
    r.by)

GA_completeQuest_catch(w, r, error) ==
  GA_showMessage(w, "Error completing quest: " \o ErrText(error), "error")

GA_claimQuest(w, quest_id) ==
  IF w.st.user = <<>> THEN GA_showMessage(w, "Please log in first", "error")
  ELSE Issue(Passed(w), "POST", <<API_GATEWAY_URL \o "/claim-quest/">>,
             [user_id |-> w.st.user[1].user_id, quest_id |-> quest_id],
             "GA.claimQuest", [user |-> w.st.user])

GA_claimQuest_ok(w, r, data) ==
  IssuedAfter(
    GA_fetchUser(
      GA_fetchUserQuests(GA_showMessage(w, "Quest claimed and reward granted!", "success"),
                         r.cl.user),
      r.cl.user[1].user_id),
    r.by)

GA_claimQuest_catch(w, r, error) ==
  GA_showMessage(w, "Error claiming quest: " \o ErrText(error), "error")

(* The onChange handlers of the four forms: reward_qty, streak and        *)
(* duplication are stored as parseInt(e.target.value), the rest as typed. *)
GA_parsedOnChange == {"reward_qty", "streak", "duplication"}

GA_onChange(w, form, upd) ==
  [w EXCEPT !.st[form] =
     [f \in DOMAIN @ |->
        IF f \notin DOMAIN upd THEN @[f]
        ELSE IF f \in GA_parsedOnChange THEN ParseInt(upd[f]) ELSE upd[f]]]

GA_setActiveTab(w, tab) == [w EXCEPT !.st.activeTab = tab]

(* What the render offers (the JSX conditions). *)
GA_infoBarShown(s) == s.token # NoToken /\ s.user # <<>>
GA_logoutOffered(s) == GA_infoBarShown(s)
GA_authTabOffered(s) == s.token = NoToken
GA_adminPanelShown(s) == s.activeTab = "admin"
GA_questPanelShown(s) == s.activeTab = "quests"
GA_questListsShown(s) == s.activeTab = "quests" /\ s.token # NoToken
GA_authPanelShown(s) == s.activeTab = "auth" /\ s.token = NoToken
GA_completeOffered(s, uq) == GA_questListsShown(s) /\ uq.status = "in_progress"
GA_claimOffered(s, uq) == GA_questListsShown(s) /\ uq.status = "completed"
GA_displayedGold(s) == IF s.user[1].gold # 0 THEN s.user[1].gold ELSE 0
GA_displayedDiamond(s) == IF s.user[1].diamond # 0 THEN s.user[1].diamond ELSE 0

(* Constraint validation of the forms (required, type="number" min="1"):  *)
(* the browser fires onSubmit only when every input is valid.             *)
IsNatText(s) == s # <<>> /\ \A i \in 1..Len(s) : IsDigit(s[i])
IsExpText(s) ==
  \E k \in 2..(Len(s) - 1) :
    s[k] = "e" /\ IsNatText(SubSeq(s, 1, k - 1)) /\ IsNatText(SubSeq(s, k + 1, Len(s)))
NumberInputValid(text) ==
  (IsNatText(text) \/ IsExpText(text)) /\ ParseInt(text).n >= 1
GA_rewardFormValid(s) ==
  /\ s.rewardForm.reward_name # "" /\ s.rewardForm.reward_item # ""
  /\ NumberInputValid(ToStr(s.rewardForm.reward_qty))
GA_questFormValid(s) ==
  /\ s.questForm.name # "" /\ s.questForm.description # ""
  /\ NumberInputValid(s.questForm.reward_id)
  /\ NumberInputValid(ToStr(s.questForm.streak))
  /\ NumberInputValid(ToStr(s.questForm.duplication))
GA_signupFormValid(s) == s.signupData.username # "" /\ s.signupData.password # ""
GA_loginFormValid(s) == s.loginData.username # "" /\ s.loginData.password # ""

----------------------------------------------------------------------------
(* The fe-quest App (fe-quest/src/App.jsx).  alerts counts the alert()    *)
(* dialogs raised.                                                        *)

FA == "QuestApp"
AUTH_SERVICE_URL == "http://localhost:8001"
QUEST_CATALOG_URL == "http://localhost:8002"
QUEST_PROCESSING_URL == "http://localhost:8003"

FA_signupInit == [user_name |-> "", password |-> "", status |-> "new"]
FA_loginInit == [user_name |-> "", password |-> ""]

FA_init(ls) ==
  [signupData |-> FA_signupInit,
   loginData |-> FA_loginInit,
   token |-> IF GetItem(ls) # <<>> THEN GetItem(ls)[1] ELSE NoToken,
   user |-> <<>>,
   quests |-> Arr(<<>>),
   assignQuestData |-> [quest_id |-> 0],
   userQuests |-> Arr(<<>>),
   message |-> "",
   alerts |-> 0]

FA_alert(w) == [w EXCEPT !.st.alerts = @ + 1]

FA_fetchUser(w, user_id) ==
  Issue(w, "GET", <<AUTH_SERVICE_URL \o "/users/", user_id>>, NoBody,
        "FA.fetchUser", NoClosure)

FA_fetchUser_ok(w, r, data) == [w EXCEPT !.st.user = <<data>>]

FA_fetchUser_catch(w, r, error) == w

(* useEffect(..., [token]); decodeToken returns null when decoding throws. *)
FA_useEffect(w) ==
  IF w.st.token = NoToken THEN w
  ELSE LET decoded == DecodePayload(SplitPayload(w.st.token))
       IN IF ~decoded.threw /\ decoded.user_id # 0
          THEN FA_fetchUser(w, decoded.user_id)
          ELSE w

FA_render(before, after) ==
  IF after.st.token # before.st.token THEN FA_useEffect(after) ELSE after

FA_handleSignup(w) ==
  Issue(Passed(w), "POST", <<AUTH_SERVICE_URL \o "/signup">>, w.st.signupData,
        "FA.handleSignup", NoClosure)

FA_handleSignup_ok(w, r, data) ==
  [w EXCEPT !.st.token = data.access_token,
            !.ls = SetItem(@, data.access_token),
            !.st.message = "Signup successful!"]

FA_handleSignup_catch(w, r, error) ==
  [w EXCEPT !.st.message = "Signup failed: " \o ErrText(error)]

FA_handleLogin(w) ==
  Issue(Passed(w), "POST", <<AUTH_SERVICE_URL \o "/login">>, w.st.loginData,
        "FA.handleLogin", NoClosure)

FA_handleLogin_ok(w, r, data) ==
  [w EXCEPT !.st.token = data.access_token,
            !.ls = SetItem(@, data.access_token),
            !.st.message = "Login successful!"]

FA_handleLogin_catch(w, r, error) ==
  [w EXCEPT !.st.message = "Login failed: " \o ErrText(error)]

FA_fetchQuests(w) ==
  Issue(w, "GET", <<QUEST_CATALOG_URL \o "/quests/">>, NoBody,
        "FA.fetchQuests", NoClosure)

FA_fetchQuests_ok(w, r, data) == [w EXCEPT !.st.quests = data]

FA_fetchQuests_catch(w, r, error) == w

FA_fetchUserQuests(w, user) ==
  IF user = <<>> THEN FA_alert(w)
  ELSE Issue(w, "GET", <<QUEST_PROCESSING_URL \o "/user-quests/", user[1].user_id>>,
             NoBody, "FA.fetchUserQuests", NoClosure)

FA_fetchUserQuests_ok(w, r, data) == [w EXCEPT !.st.userQuests = data]

FA_fetchUserQuests_catch(w, r, error) == w

FA_assignQuest(w, quest_id) ==
  IF w.st.user = <<>> THEN FA_alert(w)
  ELSE Issue(Passed(w), "POST", <<QUEST_PROCESSING_URL \o "/assign-quest/">>,
             [user_id |-> w.st.user[1].user_id, quest_id |-> ParseIntNum(quest_id)],
             "FA.assignQuest", [user |-> w.st.user])

FA_assignQuest_ok(w, r, data) ==
  FA_fetchUserQuests([w EXCEPT !.st.message = "Quest assigned successfully!"],
                     r.cl.user)

FA_assignQuest_catch(w, r, error) ==
  [w EXCEPT !.st.message = "Assign quest failed: " \o ErrText(error)]

(* The Assign Quest button: setAssignQuestData, then assignQuest. *)
FA_assignClick(w, quest_id) ==
  FA_assignQuest([w EXCEPT !.st.assignQuestData = [quest_id |-> quest_id]], quest_id)

(* No element of the render calls completeQuest. *)
FA_completeQuest(w, quest_id) ==
  IF w.st.user = <<>> THEN FA_alert(w)
  ELSE Issue(Passed(w), "POST", <<QUEST_PROCESSING_URL \o "/complete-quest/">>,
             [user_id |-> w.st.user[1].user_id, quest_id |-> quest_id],
             "FA.completeQuest", [user |-> w.st.user])

FA_completeQuest_ok(w, r, data) ==
  IssuedAfter(
    FA_fetchUser(
      FA_fetchUserQuests([w EXCEPT !.st.message = "Quest completed successfully!"],
                         r.cl.user),
      r.cl.user[1].user_id),
    r.by)

FA_completeQuest_catch(w, r, error) ==
  [w EXCEPT !.st.message = "Complete quest failed: " \o ErrText(error)]

FA_claimQuest(w, quest_id) ==
  LET a == FA_alert(w)
  IN IF a.st.user = <<>> THEN FA_alert(a)
     ELSE Issue(Passed(a), "POST", <<QUEST_PROCESSING_URL \o "/claim-quest/">>,
                [user_id |-> a.st.user[1].user_id, quest_id |-> quest_id],
                "FA.claimQuest", [user |-> a.st.user])

FA_claimQuest_ok(w, r, data) ==
  IssuedAfter(
    FA_fetchUser(
      FA_fetchUserQuests([w EXCEPT !.st.message = "Quest claimed and reward granted!"],
                         r.cl.user),
      r.cl.user[1].user_id),
    r.by)

FA_claimQuest_catch(w, r, error) ==
  [w EXCEPT !.st.message = "Claim quest failed: " \o ErrText(error)]

FA_handleLogout(w) ==
  [w EXCEPT !.st.token = NoToken,
            !.ls = RemoveItem(@),
            !.st.user = <<>>,
            !.st.userQuests = Arr(<<>>),
            !.st.message = "Logged out successfully!"]

FA_onChange(w, form, upd) == [w EXCEPT !.st[form] = Override(@, upd)]

(* What the render offers. *)
FA_authFormsShown(s) == s.token = NoToken
FA_logoutOffered(s) == s.token # NoToken
FA_questListsShown(s) == s.token # NoToken
FA_completeOffered(s, uq) == FALSE
FA_claimOffered(s, uq) == FA_questListsShown(s) /\ uq.status = "completed"
FA_signupFormValid(s) == s.signupData.user_name # "" /\ s.signupData.password # ""
FA_loginFormValid(s) == s.loginData.user_name # "" /\ s.loginData.password # ""

----------------------------------------------------------------------------
(* The servers, as the client sees them: any pending request may be       *)
(* answered next, with a body of the documented shape or with an error.   *)

Ack == [ok |-> TRUE]
UserItem(id) == [user_id |-> id]
QuestItem(id) == [quest_id |-> id]
RewardItem(id) == [reward_id |-> id]
UserQuestItem(q, status) == [user_id |-> 1, quest_id |-> q, status |-> status]

UserLists == {Arr(<<>>), Arr(<<UserItem(1)>>), Arr(<<UserItem(1), UserItem(2)>>), NotArr}
QuestLists == {Arr(<<>>), Arr(<<QuestItem(1)>>), NotArr}
RewardLists == {Arr(<<>>), Arr(<<RewardItem(1)>>), NotArr}
UserQuestLists ==
  {Arr(<<>>),
   Arr(<<UserQuestItem(1, "in_progress")>>),
   Arr(<<UserQuestItem(1, "completed"), UserQuestItem(2, "claimed")>>),
   NotArr}
UserObjects(id) ==
  {[user_id |-> id, gold |-> 0, diamond |-> 0],
   [user_id |-> id, gold |-> 5, diamond |-> 10]}
IssuedTokens == {Token1, Token2, TokenNoId, TokenBad}
AuthResponses == {[access_token |-> tk, user_id |-> 1] : tk \in IssuedTokens}

ResponseData(r) ==
  CASE r.by \in {"UM.fetchUsers", "AQ.fetchUsers"} -> UserLists
    [] r.by \in {"AQ.fetchQuests", "QM.fetchQuests", "GA.fetchQuests", "FA.fetchQuests"} -> QuestLists
    [] r.by \in {"RM.fetchRewards", "GA.fetchRewards"} -> RewardLists
    [] r.by \in {"QS.fetchQuests", "GA.fetchUserQuests", "FA.fetchUserQuests"} -> UserQuestLists
    [] r.by \in {"GA.fetchUser", "FA.fetchUser"} -> UserObjects(r.url[2])
    [] r.by \in {"SU.handleSignup", "GA.handleSignup", "GA.handleLogin",
                  "FA.handleSignup", "FA.handleLogin"} -> AuthResponses
    [] OTHER -> {Ack}

(* The continuation after the await, when the promise is fulfilled. *)
OnFulfilled(w, r, data) ==
  CASE r.by = "UM.fetchUsers" -> UM_fetchUsers_ok(w, r, data)
    [] r.by = "UM.addUser" -> UM_addUser_ok(w, r, data)
    [] r.by = "AQ.fetchUsers" -> AQ_fetchUsers_ok(w, r, data)
    [] r.by = "AQ.fetchQuests" -> AQ_fetchQuests_ok(w, r, data)
    [] r.by = "AQ.assignQuest" -> AQ_assignQuest_ok(w, r, data)
    [] r.by = "QM.fetchQuests" -> QM_fetchQuests_ok(w, r, data)
    [] r.by = "QM.addQuest" -> QM_addQuest_ok(w, r, data)
    [] r.by = "RM.fetchRewards" -> RM_fetchRewards_ok(w, r, data)
    [] r.by = "RM.addReward" -> RM_addReward_ok(w, r, data)
    [] r.by = "SU.handleSignup" -> SU_handleSignup_ok(w, r, data)
    [] r.by = "QS.fetchQuests" -> QS_fetchQuests_ok(w, r, data)
    [] r.by = "GA.fetchUser" -> GA_fetchUser_ok(w, r, data)
    [] r.by = "GA.handleSignup" -> GA_handleSignup_ok(w, r, data)
    [] r.by = "GA.handleLogin" -> GA_handleLogin_ok(w, r, data)
    [] r.by = "GA.fetchRewards" -> GA_fetchRewards_ok(w, r, data)
    [] r.by = "GA.createReward" -> GA_createReward_ok(w, r, data)
    [] r.by = "GA.fetchQuests" -> GA_fetchQuests_ok(w, r, data)
    [] r.by = "GA.createQuest" -> GA_createQuest_ok(w, r, data)
    [] r.by = "GA.fetchUserQuests" -> GA_fetchUserQuests_ok(w, r, data)
    [] r.by = "GA.assignQuest" -> GA_assignQuest_ok(w, r, data)
    [] r.by = "GA.completeQuest" -> GA_completeQuest_ok(w, r, data)
    [] r.by = "GA.claimQuest" -> GA_claimQuest_ok(w, r, data)
    [] r.by = "FA.fetchUser" -> FA_fetchUser_ok(w, r, data)
    [] r.by = "FA.handleSignup" -> FA_handleSignup_ok(w, r, data)
    [] r.by = "FA.handleLogin" -> FA_handleLogin_ok(w, r, data)
    [] r.by = "FA.fetchQuests" -> FA_fetchQuests_ok(w, r, data)
    [] r.by = "FA.fetchUserQuests" -> FA_fetchUserQuests_ok(w, r, data)
    [] r.by = "FA.assignQuest" -> FA_assignQuest_ok(w, r, data)
    [] r.by = "FA.completeQuest" -> FA_completeQuest_ok(w, r, data)
    [] r.by = "FA.claimQuest" -> FA_claimQuest_ok(w, r, data)

(* The catch block, when the promise is rejected. *)
OnRejected(w, r, error) ==
  CASE r.by = "UM.fetchUsers" -> UM_fetchUsers_catch(w, r, error)
    [] r.by = "UM.addUser" -> UM_addUser_catch(w, r, error)
    [] r.by = "AQ.fetchUsers" -> AQ_fetchUsers_catch(w, r, error)
    [] r.by = "AQ.fetchQuests" -> AQ_fetchQuests_catch(w, r, error)
    [] r.by = "AQ.assignQuest" -> AQ_assignQuest_catch(w, r, error)
    [] r.by = "QM.fetchQuests" -> QM_fetchQuests_catch(w, r, error)
    [] r.by = "QM.addQuest" -> QM_addQuest_catch(w, r, error)
    [] r.by = "RM.fetchRewards" -> RM_fetchRewards_catch(w, r, error)
    [] r.by = "RM.addReward" -> RM_addReward_catch(w, r, error)
    [] r.by = "SU.handleSignup" -> SU_handleSignup_catch(w, r, error)
    [] r.by = "QS.fetchQuests" -> QS_fetchQuests_catch(w, r, error)
    [] r.by = "GA.fetchUser" -> GA_fetchUser_catch(w, r, error)
    [] r.by = "GA.handleSignup" -> GA_handleSignup_catch(w, r, error)
    [] r.by = "GA.handleLogin" -> GA_handleLogin_catch(w, r, error)
    [] r.by = "GA.fetchRewards" -> GA_fetchRewards_catch(w, r, error)
    [] r.by = "GA.createReward" -> GA_createReward_catch(w, r, error)
    [] r.by = "GA.fetchQuests" -> GA_fetchQuests_catch(w, r, error)
    [] r.by = "GA.createQuest" -> GA_createQuest_catch(w, r, error)
    [] r.by = "GA.fetchUserQuests" -> GA_fetchUserQuests_catch(w, r, error)
    [] r.by = "GA.assignQuest" -> GA_assignQuest_catch(w, r, error)
    [] r.by = "GA.completeQuest" -> GA_completeQuest_catch(w, r, error)
    [] r.by = "GA.claimQuest" -> GA_claimQuest_catch(w, r, error)
    [] r.by = "FA.fetchUser" -> FA_fetchUser_catch(w, r, error)
    [] r.by = "FA.handleSignup" -> FA_handleSignup_catch(w, r, error)
    [] r.by = "FA.handleLogin" -> FA_handleLogin_catch(w, r, error)
    [] r.by = "FA.fetchQuests" -> FA_fetchQuests_catch(w, r, error)
    [] r.by = "FA.fetchUserQuests" -> FA_fetchUserQuests_catch(w, r, error)
    [] r.by = "FA.assignQuest" -> FA_assignQuest_catch(w, r, error)
    [] r.by = "FA.completeQuest" -> FA_completeQuest_catch(w, r, error)
    [] r.by = "FA.claimQuest" -> FA_claimQuest_catch(w, r, error)

----------------------------------------------------------------------------
(* What the user may type or pick (one change action is one or more       *)
(* onChange events of a form).                                            *)

UM_inputs ==
  {[userName |-> "alice", userStatus |-> <<"7">>],
   [userName |-> "bob", userStatus |-> <<"n", "e", "w">>]}
QM_inputs ==
  {[questName |-> "daily", questDescription |-> "log in", rewardId |-> <<"7">>,
    autoClaim |-> TRUE, streak |-> <<"3">>, duplication |-> <<"1", ".", "5">>],
   [questName |-> "daily", rewardId |-> <<"x">>, streak |-> <<>>]}
RM_inputs ==
  {[rewardName |-> "Gold", rewardItem |-> "gold", rewardQty |-> <<"1", "2">>],
   [rewardName |-> "Gem", rewardItem |-> "diamond", rewardQty |-> <<"1", ".", "5">>]}
SU_inputs == {[username |-> "alice", password |-> "pw"], [username |-> "alice"]}
(* The options of the two selects: "", and the id of every listed item. *)
AQ_userOptions(s) ==
  {<<>>} \cup {ToStr(Num(s.users.items[i].user_id)) : i \in 1..Len(s.users.items)}
AQ_questOptions(s) ==
  {<<>>} \cup {ToStr(Num(s.quests.items[i].quest_id)) : i \in 1..Len(s.quests.items)}
PropUserIds == {1, 2}
GA_inputs(form) ==
  CASE form = "signupData" -> {[username |-> "alice", password |-> "pw"], [username |-> "alice"]}
    [] form = "loginData" -> {[username |-> "alice", password |-> "pw"], [password |-> "pw"]}
    [] form = "rewardForm" ->
         {[reward_name |-> "Gold", reward_item |-> "gold", reward_qty |-> <<"1", ".", "5">>],
          [reward_name |-> "Gold", reward_item |-> "gold", reward_qty |-> <<>>]}
    [] form = "questForm" ->
         {[name |-> "daily", description |-> "log in", reward_id |-> <<"1", "e", "2">>,
           streak |-> <<"3">>, auto_claim |-> TRUE],
          [name |-> "daily", description |-> "log in", reward_id |-> <<"7">>,
           duplication |-> <<>>]}
GA_forms == {"signupData", "loginData", "rewardForm", "questForm"}
FA_inputs(form) ==
  CASE form = "signupData" ->
         {[user_name |-> "alice", password |-> "pw", status |-> "banned"],
          [user_name |-> "alice"]}
    [] form = "loginData" -> {[user_name |-> "alice", password |-> "pw"], [password |-> "pw"]}
FA_forms == {"signupData", "loginData"}
StoredTokens == {Token1, TokenNoId, TokenBad}

----------------------------------------------------------------------------
(* The state machine *)

Components == {UM, AQ, QM, RM, SU, QS, GA, FA}
Apps == {GA, FA}

InitState(c, ls) ==
  CASE c = UM -> UM_init
    [] c = AQ -> AQ_init
    [] c = QM -> QM_init
    [] c = RM -> RM_init
    [] c = SU -> SU_init
    [] c = QS -> QS_init(1)
    [] c = GA -> GA_init(ls)
    [] c = FA -> FA_init(ls)

NoDelivery == [id |-> 0, by |-> "", ok |-> FALSE, resp |-> NoResp]

HistInit ==
  [mounted |-> FALSE, submits |-> 0, events |-> 0,
   issued |-> 0, posts |-> 0, rejected |-> {}, overlapped |-> FALSE,
   failed |-> FALSE, last |-> NoDelivery]

----------------------------------------------------------------------------
(* The quest-processing service behind assign-quest, complete-quest and   *)
(* claim-quest.  Its code is not part of the sources; it is modelled from *)
(* the README's walk-through (Steps 2 and 6 to 10) and the test script,   *)
(* for one user and one quest, over the calls they document: assigning a  *)
(* quest not yet assigned, completing a quest in progress, claiming a     *)
(* quest whose auto_claim is false.                                       *)

(* In the client's specification no service is modelled. *)
NoService == [none |-> TRUE]

REWARD_ITEMS == {"gold", "diamond"}
RewardQtys == {5, 10}
QuestConfigs ==
  [streak : 1..MaxStreak, auto_claim : BOOLEAN,
   reward_item : REWARD_ITEMS, reward_qty : RewardQtys]
Balances == {[gold |-> 0, diamond |-> 0], [gold |-> 5, diamond |-> 10]}
NoCall == [op |-> "none", ok |-> TRUE]

(* The service after Steps 1 to 5: a reward, a quest and a user exist,    *)
(* the user has no quest.  uq is <<>> or the user's one user quest,       *)
(* granted counts the reward grants, last is the last call's outcome.     *)
ServiceStates ==
  {[quest |-> q, uq |-> <<>>, balance |-> b, granted |-> 0, last |-> NoCall] :
     q \in QuestConfigs, b \in Balances}

Answered(s, op, ok) == [s EXCEPT !.last = [op |-> op, ok |-> ok]]

(* The reward of the quest is added to the user's balance of its item. *)
grant_reward(s) ==
  [s EXCEPT !.balance[s.quest.reward_item] = @ + s.quest.reward_qty,
            !.granted = @ + 1]

(* POST /assign-quest/: "status": "in_progress". *)
assign_quest(s) ==
  Answered([s EXCEPT !.uq = <<[status |-> "in_progress", progress |-> 0]>>],
           "assign-quest", TRUE)

(* A completion that never grants the reward itself. *)
complete_quest_noAutoClaim(s) ==
  LET progress == s.uq[1].progress + 1 IN
  Answered([s EXCEPT !.uq[1].progress = progress,
                     !.uq[1].status = IF progress >= s.quest.streak
                                      THEN "completed" ELSE "in_progress"],
           "complete-quest", TRUE)

(* A completion that leaves the status at in_progress whatever the streak. *)
complete_quest_neverCompleted(s) ==
  Answered([s EXCEPT !.uq[1].progress = @ + 1], "complete-quest", TRUE)

(* POST /complete-quest/: one more completion; the quest is marked as     *)
(* completed at the streak-th, and its reward is granted then if          *)
(* auto_claim is true.                                                    *)
complete_quest(s) ==
  LET progress == s.uq[1].progress + 1
      done == progress >= s.quest.streak
      counted == [s EXCEPT !.uq[1].progress = progress,
                           !.uq[1].status = IF done THEN "completed" ELSE "in_progress"]
  IN Answered(IF done /\ s.quest.auto_claim THEN grant_reward(counted) ELSE counted,
              "complete-quest", TRUE)

(* A claim that grants the reward whatever the status of the quest. *)
claim_quest_anyStatus(s) ==
  IF s.uq = <<>> THEN Answered(s, "claim-quest", FALSE)
  ELSE Answered(grant_reward([s EXCEPT !.uq[1].status = "claimed"]),
                "claim-quest", TRUE)

(* POST /claim-quest/: the reward of a completed quest is granted and the *)
(* quest is claimed; any other claim is refused.                          *)
claim_quest(s) ==
  IF s.uq = <<>> \/ s.uq[1].status # "completed"
  THEN Answered(s, "claim-quest", FALSE)
  ELSE Answered(grant_reward([s EXCEPT !.uq[1].status = "claimed"]),
                "claim-quest", TRUE)

Roles(c) == IF c = GA THEN {"admin", "player"} ELSE {"user"}

Init ==
  /\ comp \in Components
  /\ role \in Roles(comp)
  /\ localStorage \in
       IF comp \in Apps /\ role # "admin"
       THEN {EmptyStorage} \cup {SetItem(EmptyStorage, tk) : tk \in StoredTokens}
       ELSE {EmptyStorage}
  /\ st = InitState(comp, localStorage)
  /\ net = <<>>
  /\ hist = HistInit
  /\ srv = NoService

(* The effects that run when the component mounts. *)
OnMount(w) ==
  CASE comp = UM -> UM_useEffect(w)
    [] comp = AQ -> AQ_useEffect(w)
    [] comp = QM -> QM_useEffect(w)
    [] comp = RM -> RM_useEffect(w)
    [] comp = SU -> w
    [] comp = QS -> QS_useEffect(w)
    [] comp = GA -> GA_useEffect(w)
    [] comp = FA -> FA_useEffect(w)

(* The render after a handler or continuation, with the effects it runs. *)
Run(before, after) ==
  CASE comp = GA -> GA_render(before, after)
    [] comp = FA -> FA_render(before, after)
    [] OTHER -> after

Commit(w) ==
  /\ st' = w.st
  /\ net' = w.net
  /\ localStorage' = w.ls
  /\ hist' = w.h
  /\ UNCHANGED <<comp, role, srv>>

Mounted(c) == comp = c /\ hist.mounted
Player == Mounted(GA) /\ role = "player"
Admin == Mounted(GA) /\ role = "admin"
CanClick == hist.events < MaxEvents
CanEdit == hist.events < MaxEvents
Clicked == [World EXCEPT !.h.events = @ + 1, !.h.last = NoDelivery]
Edited == [World EXCEPT !.h.events = @ + 1, !.h.last = NoDelivery]
Idle == [World EXCEPT !.h.last = NoDelivery]

Mount ==
  /\ ~hist.mounted
  /\ Commit(OnMount([World EXCEPT !.h.mounted = TRUE]))

(* A page reload: the script's pending continuations are gone, the state *)
(* starts from the useState initialisers, localStorage stays.            *)
Reload ==
  /\ comp \in Apps /\ hist.mounted /\ CanClick
  /\ st' = InitState(comp, localStorage)
  /\ net' = <<>>
  /\ hist' = [Clicked.h EXCEPT !.mounted = FALSE]
  /\ UNCHANGED <<comp, role, localStorage, srv>>

Remove(s, i) == SubSeq(s, 1, i - 1) \o SubSeq(s, i + 1, Len(s))

(* The response to the i-th request in flight arrives (the observer keeps *)
(* the body of a successful one).                                         *)
Settled(w, i, ok, resp) ==
  [w EXCEPT !.net = Remove(@, i),
            !.h.last = [id |-> w.net[i].id, by |-> w.net[i].by, ok |-> ok,
                        resp |-> IF ok THEN resp ELSE NoResp],
            !.h.failed = @ \/ ~ok]

DeliverOk ==
  \E i \in 1..Len(net) :
    \E data \in ResponseData(net[i]) :
      Commit(Run(World, OnFulfilled(Settled(World, i, TRUE, data), net[i], data)))

DeliverError ==
  \E i \in 1..Len(net) :
    \E error \in Errors :
      Commit(Run(World, OnRejected(Settled(World, i, FALSE, error), net[i], error)))

(* The user's actions, each enabled when the render offers its control. *)

UM_change ==
  /\ Mounted(UM) /\ CanEdit
  /\ \E upd \in UM_inputs : Commit(UM_onChange(Edited, upd))

UM_clickAddUser ==
  /\ Mounted(UM) /\ CanClick
  /\ Commit(UM_addUser(Clicked))

AQ_change ==
  /\ Mounted(AQ) /\ CanEdit
  /\ \E u \in AQ_userOptions(st), q \in AQ_questOptions(st) :
       Commit(AQ_onChange(Edited, [selectedUser |-> u, selectedQuest |-> q]))

AQ_clickAssignQuest ==
  /\ Mounted(AQ) /\ CanClick
  /\ Commit(AQ_assignQuest(Clicked))

QM_change ==
  /\ Mounted(QM) /\ CanEdit
  /\ \E upd \in QM_inputs : Commit(QM_onChange(Edited, upd))

QM_clickAddQuest ==
  /\ Mounted(QM) /\ CanClick
  /\ Commit(QM_addQuest(Clicked))

RM_change ==
  /\ Mounted(RM) /\ CanEdit
  /\ \E upd \in RM_inputs : Commit(RM_onChange(Edited, upd))

RM_clickAddReward ==
  /\ Mounted(RM) /\ CanClick
  /\ Commit(RM_addReward(Clicked))

SU_change ==
  /\ Mounted(SU) /\ CanEdit
  /\ \E upd \in SU_inputs : Commit(SU_onChange(Edited, upd))

SU_clickSignup ==
  /\ Mounted(SU) /\ CanClick
  /\ Commit(SU_handleSignup(Clicked))

(* The parent re-renders QuestStatus with another userId. *)
QS_propChange ==
  /\ Mounted(QS) /\ CanClick
  /\ \E u \in PropUserIds \ {st.userId} : Commit(QS_setProp(Clicked, u))

GA_change ==
  /\ Mounted(GA) /\ CanEdit
  /\ \E form \in GA_forms :
       /\ form \in {"signupData", "loginData"} => role = "player" /\ GA_authPanelShown(st)
       /\ form \in {"rewardForm", "questForm"} => role = "admin" /\ GA_adminPanelShown(st)
       /\ \E upd \in GA_inputs(form) : Commit(GA_onChange(Edited, form, upd))

GA_clickTab ==
  /\ Mounted(GA) /\ CanClick
  /\ \E tab \in {"admin", "quests", "auth"} :
       /\ tab = "auth" => GA_authTabOffered(st)
       /\ tab # st.activeTab
       /\ Commit(GA_setActiveTab(Clicked, tab))

GA_submitSignup ==
  /\ Player /\ CanClick
  /\ GA_authPanelShown(st) /\ GA_signupFormValid(st)
  /\ Commit(Run(World, GA_handleSignup(Clicked)))

GA_submitLogin ==
  /\ Player /\ CanClick
  /\ GA_authPanelShown(st) /\ GA_loginFormValid(st)
  /\ Commit(Run(World, GA_handleLogin(Clicked)))

GA_clickLogout ==
  /\ Player /\ CanClick
  /\ GA_logoutOffered(st)
  /\ Commit(Run(World, GA_handleLogout(Clicked)))

GA_clickFetchRewards ==
  /\ Admin /\ CanClick
  /\ GA_adminPanelShown(st)
  /\ Commit(Run(World, GA_fetchRewards(Clicked)))

GA_submitReward ==
  /\ Admin /\ CanClick
  /\ GA_adminPanelShown(st) /\ GA_rewardFormValid(st)
  /\ Commit(Run(World, GA_createReward(Clicked)))

GA_clickFetchQuests ==
  /\ Mounted(GA) /\ CanClick
  /\ \/ role = "admin" /\ GA_adminPanelShown(st)
     \/ role = "player" /\ GA_questListsShown(st)
  /\ Commit(Run(World, GA_fetchQuests(Clicked)))

GA_submitQuest ==
  /\ Admin /\ CanClick
  /\ GA_adminPanelShown(st) /\ GA_questFormValid(st)
  /\ Commit(Run(World, GA_createQuest(Clicked)))

GA_clickFetchUserQuests ==
  /\ Player /\ CanClick
  /\ GA_questListsShown(st)
  /\ Commit(Run(World, GA_fetchUserQuests(Clicked, st.user)))

GA_clickAssign ==
  /\ Player /\ CanClick
  /\ GA_questListsShown(st) /\ LengthPositive(st.quests)
  /\ \E i \in 1..Len(st.quests.items) :
       Commit(Run(World, GA_assignQuest(Clicked, st.quests.items[i].quest_id)))

GA_clickComplete ==
  /\ Player /\ CanClick
  /\ LengthPositive(st.userQuests)
  /\ \E i \in 1..Len(st.userQuests.items) :
       /\ GA_completeOffered(st, st.userQuests.items[i])
       /\ Commit(Run(World, GA_completeQuest(Clicked, st.userQuests.items[i].quest_id)))

GA_clickClaim ==
  /\ Player /\ CanClick
  /\ LengthPositive(st.userQuests)
  /\ \E i \in 1..Len(st.userQuests.items) :
       /\ GA_claimOffered(st, st.userQuests.items[i])
       /\ Commit(Run(World, GA_claimQuest(Clicked, st.userQuests.items[i].quest_id)))

(* Five seconds after a showMessage its timer fires. *)
GA_timerFires ==
  /\ Mounted(GA) /\ st.timers > 0
  /\ Commit(GA_timeout(Idle))

FA_change ==
  /\ Mounted(FA) /\ CanEdit /\ FA_authFormsShown(st)
  /\ \E form \in FA_forms :
       \E upd \in FA_inputs(form) : Commit(FA_onChange(Edited, form, upd))

FA_submitSignup ==
  /\ Mounted(FA) /\ CanClick
  /\ FA_authFormsShown(st) /\ FA_signupFormValid(st)
  /\ Commit(Run(World, FA_handleSignup(Clicked)))

FA_submitLogin ==
  /\ Mounted(FA) /\ CanClick
  /\ FA_authFormsShown(st) /\ FA_loginFormValid(st)
  /\ Commit(Run(World, FA_handleLogin(Clicked)))

FA_clickLogout ==
  /\ Mounted(FA) /\ CanClick
  /\ FA_logoutOffered(st)
  /\ Commit(Run(World, FA_handleLogout(Clicked)))

FA_clickFetchQuests ==
  /\ Mounted(FA) /\ CanClick
  /\ FA_questListsShown(st)
  /\ Commit(Run(World, FA_fetchQuests(Clicked)))

FA_clickFetchUserQuests ==
  /\ Mounted(FA) /\ CanClick
  /\ FA_questListsShown(st)
  /\ Commit(Run(World, FA_fetchUserQuests(Clicked, st.user)))

FA_clickAssign ==
  /\ Mounted(FA) /\ CanClick
  /\ FA_questListsShown(st) /\ LengthPositive(st.quests)
  /\ \E i \in 1..Len(st.quests.items) :
       Commit(Run(World, FA_assignClick(Clicked, st.quests.items[i].quest_id)))

FA_clickClaim ==
  /\ Mounted(FA) /\ CanClick
  /\ LengthPositive(st.userQuests)
  /\ \E i \in 1..Len(st.userQuests.items) :
       /\ FA_claimOffered(st, st.userQuests.items[i])
       /\ Commit(Run(World, FA_claimQuest(Clicked, st.userQuests.items[i].quest_id)))

Next ==
  \/ Mount
  \/ Reload
  \/ DeliverOk
  \/ DeliverError
  \/ UM_change
  \/ UM_clickAddUser
  \/ AQ_change
  \/ AQ_clickAssignQuest
  \/ QM_change
  \/ QM_clickAddQuest
  \/ RM_change
  \/ RM_clickAddReward
  \/ SU_change
  \/ SU_clickSignup
  \/ QS_propChange
  \/ GA_change
  \/ GA_clickTab
  \/ GA_submitSignup
  \/ GA_submitLogin
  \/ GA_clickLogout
  \/ GA_clickFetchRewards
  \/ GA_submitReward
  \/ GA_clickFetchQuests
  \/ GA_submitQuest
  \/ GA_clickFetchUserQuests
  \/ GA_clickAssign
  \/ GA_clickComplete
  \/ GA_clickClaim
  \/ GA_timerFires
  \/ FA_change
  \/ FA_submitSignup
  \/ FA_submitLogin
  \/ FA_clickLogout
  \/ FA_clickFetchQuests
  \/ FA_clickFetchUserQuests
  \/ FA_clickAssign
  \/ FA_clickClaim

Spec == Init /\ [][Next]_vars

(* The service alone: the calls of the walk-through in any order, with no *)
(* client mounted.                                                        *)
ServiceInit ==
  /\ comp = GA /\ role = "admin"
  /\ localStorage = EmptyStorage
  /\ st = InitState(GA, EmptyStorage)
  /\ net = <<>>
  /\ hist = HistInit
  /\ srv \in ServiceStates

Serve(s) == srv' = s /\ UNCHANGED <<comp, role, st, net, localStorage, hist>>

CallAssignQuest == srv.uq = <<>> /\ Serve(assign_quest(srv))

CallCompleteQuest ==
  /\ srv.uq # <<>> /\ srv.uq[1].status = "in_progress"
  /\ Serve(complete_quest(srv))

CallClaimQuest == ~srv.quest.auto_claim /\ Serve(claim_quest(srv))

ServiceNext == CallAssignQuest \/ CallCompleteQuest \/ CallClaimQuest

ServiceSpec == ServiceInit /\ [][ServiceNext]_vars

----------------------------------------------------------------------------
(* Properties.  A step is observed through the requests it issued (those  *)
(* of net' numbered above hist.issued) and the delivery it made           *)
(* (hist'.last, which every other step clears).                           *)

NewRequests == {i \in 1..Len(net') : net'[i].id > hist.issued}
DeliveryStep == hist'.last.id # 0 /\ hist'.last.id # hist.last.id
SubmitStep == hist'.submits = hist.submits + 1

(* The create/assign handlers and the list fetch each refetches with. *)
RefetchingHandlers ==
  {"UM.addUser", "QM.addQuest", "RM.addReward", "GA.createReward",
   "GA.createQuest", "GA.assignQuest", "FA.assignQuest"}
CreateHandlers == RefetchingHandlers \cup {"AQ.assignQuest"}
ListFetchesOf(by) ==
  CASE by = "UM.addUser" -> {"UM.fetchUsers"}
    [] by = "QM.addQuest" -> {"QM.fetchQuests"}
    [] by = "RM.addReward" -> {"RM.fetchRewards"}
    [] by = "AQ.assignQuest" -> {"AQ.fetchUsers", "AQ.fetchQuests"}
    [] by = "GA.createReward" -> {"GA.fetchRewards"}
    [] by = "GA.createQuest" -> {"GA.fetchQuests"}
    [] by = "GA.assignQuest" -> {"GA.fetchUserQuests"}
    [] by = "FA.assignQuest" -> {"FA.fetchUserQuests"}
RefetchIssued(by) ==
  \E i \in NewRequests : net'[i].method = "GET" /\ net'[i].by \in ListFetchesOf(by)

(* C1 as stated: in every component with a create/assign form, the answer *)
(* to a successful POST is followed by a GET refetch of the component's   *)
(* list, and the answer to a failed POST by no request at all.            *)
C1_Original ==
  [][DeliveryStep /\ hist'.last.by \in CreateHandlers =>
       IF hist'.last.ok THEN RefetchIssued(hist'.last.by) ELSE NewRequests = {}]_vars

(* C1, amended: the answer to a successful POST of addUser, addQuest,     *)
(* addReward, createReward, createQuest or either App's assignQuest is    *)
(* followed by one GET refetch of that component's list; the answer to a  *)
(* successful POST of the AssignQuest component, and the answer to any    *)
(* failed POST, is followed by no request.                                *)
C1_RefetchOnSuccess ==
  [][DeliveryStep /\ hist'.last.by \in CreateHandlers =>
       IF hist'.last.ok /\ hist'.last.by \in RefetchingHandlers
       THEN RefetchIssued(hist'.last.by) /\ Cardinality(NewRequests) = 1
       ELSE NewRequests = {}]_vars

(* A successful addUser has just been answered and its refetch is in flight. *)
C1_Witness ==
  /\ hist.last.by = "UM.addUser" /\ hist.last.ok
  /\ \E i \in 1..Len(net) : net[i].by = "UM.fetchUsers" /\ net[i].id > hist.last.id

(* C2 as stated: no handler's promise ever rejects, whatever the failure  *)
(* of its request (an HTTP error response or a network error without a    *)
(* response object): every failure ends inside the handler's catch block. *)
C2_NoHandlerThrows == hist.rejected = {}

(* The run so far is the one C3 speaks of: every request was answered     *)
(* successfully and none was issued while another was in flight.          *)
Quiet == ~hist.overlapped /\ ~hist.failed

(* The handlers that post a form, the form's current values under the     *)
(* names of the body's fields, and the fields the handler reads with      *)
(* parseInt from the field's text.                                        *)
FormHandlers ==
  {"UM.addUser", "QM.addQuest", "RM.addReward", "AQ.assignQuest", "SU.handleSignup",
   "GA.createReward", "GA.createQuest", "GA.handleSignup", "GA.handleLogin",
   "FA.handleSignup", "FA.handleLogin"}
FormOf(by, s) ==
  CASE by = "UM.addUser" -> [user_name |-> s.userName, status |-> s.userStatus]
    [] by = "QM.addQuest" ->
         [reward_id |-> s.rewardId, auto_claim |-> s.autoClaim, streak |-> s.streak,
          duplication |-> s.duplication, name |-> s.questName,
          description |-> s.questDescription]
    [] by = "RM.addReward" ->
         [reward_name |-> s.rewardName, reward_item |-> s.rewardItem,
          reward_qty |-> s.rewardQty]
    [] by = "AQ.assignQuest" -> [user_id |-> s.selectedUser, quest_id |-> s.selectedQuest]
    [] by = "SU.handleSignup" -> [username |-> s.username, password |-> s.password]
    [] by = "GA.createReward" -> s.rewardForm
    [] by = "GA.createQuest" -> s.questForm
    [] by \in {"GA.handleSignup", "FA.handleSignup"} -> s.signupData
    [] by \in {"GA.handleLogin", "FA.handleLogin"} -> s.loginData
ParsedTextFields(by) ==
  CASE by = "UM.addUser" -> {"status"}
    [] by = "QM.addQuest" -> {"reward_id", "streak", "duplication"}
    [] by = "RM.addReward" -> {"reward_qty"}
    [] by = "AQ.assignQuest" -> {"user_id", "quest_id"}
    [] by = "GA.createQuest" -> {"reward_id"}
    [] OTHER -> {}

ListFetchHandlers ==
  {"UM.fetchUsers", "AQ.fetchUsers", "AQ.fetchQuests", "QM.fetchQuests",
   "RM.fetchRewards", "QS.fetchQuests", "GA.fetchRewards", "GA.fetchQuests",
   "GA.fetchUserQuests", "FA.fetchQuests", "FA.fetchUserQuests"}
ListOf(by, s) ==
  CASE by \in {"UM.fetchUsers", "AQ.fetchUsers"} -> s.users
    [] by \in {"RM.fetchRewards", "GA.fetchRewards"} -> s.rewards
    [] by \in {"GA.fetchUserQuests", "FA.fetchUserQuests"} -> s.userQuests
    [] OTHER -> s.quests

(* The one POST of a submit step carries the body `sent` computes from    *)
(* the form's values and the body's field.                                *)
OnePost(sent(_, _, _)) ==
  /\ Cardinality(NewRequests) = 1
  /\ \A i \in NewRequests :
       /\ net'[i].method = "POST"
       /\ net'[i].by \in FormHandlers =>
            LET form == FormOf(net'[i].by, st)
            IN /\ DOMAIN net'[i].body = DOMAIN form
               /\ \A f \in DOMAIN form : sent(net'[i].by, form, f) = net'[i].body[f]

(* After the answer to a list fetch the list displayed is the array in it. *)
ListShowsResponse ==
  DeliveryStep /\ hist'.last.ok /\ hist'.last.by \in ListFetchHandlers
               /\ IsArray(hist'.last.resp)
    => ListOf(hist'.last.by, st') = hist'.last.resp

SentAsTyped(by, form, f) ==
  IF f \in ParsedTextFields(by) THEN ParseInt(form[f]) ELSE form[f]

(* What a field of the body reads as in the form. *)
ReadBack(by, body, f) ==
  IF f \in ParsedTextFields(by) THEN ToStr(body[f]) ELSE body[f]

ItemIds(list, field) ==
  IF LengthPositive(list) THEN {list.items[i][field] : i \in 1..Len(list.items)} ELSE {}
ExpectedBodies(by, s) ==
  IF by \in FormHandlers
  THEN {[f \in DOMAIN FormOf(by, s) |-> SentAsTyped(by, FormOf(by, s), f)]}
  ELSE IF by \in {"GA.assignQuest", "FA.assignQuest"}
  THEN {[user_id |-> s.user[1].user_id, quest_id |-> Num(q)] : q \in ItemIds(s.quests, "quest_id")}
  ELSE {[user_id |-> s.user[1].user_id, quest_id |-> q] : q \in ItemIds(s.userQuests, "quest_id")}

(* C4: the client does no request deduplication.  Whatever is in flight,  *)
(* a submit leaves every request in flight and adds one POST whose body   *)
(* is determined by the current form (or the clicked item) alone; so a    *)
(* second submit before the first answer puts a second, identical POST in *)
(* flight.                                                                *)
C4_NoDeduplication ==
  [][SubmitStep =>
       \E i \in NewRequests :
         /\ net' = Append(net, net'[i])
         /\ net'[i].method = "POST"
         /\ net'[i].body \in ExpectedBodies(net'[i].by, st)]_vars

(* Two identical POSTs are in flight at once. *)
C4_Witness ==
  \E i, j \in 1..Len(net) :
    /\ i < j /\ net[i].method = "POST" /\ net[j].method = "POST"
    /\ net[i].by = net[j].by /\ net[i].url = net[j].url /\ net[i].body = net[j].body

(* The list fetches that apply only an array. *)
ArrayCheckedFetches ==
  {"UM.fetchUsers", "AQ.fetchUsers", "AQ.fetchQuests", "QM.fetchQuests", "RM.fetchRewards"}

(* C5: the answers to overlapping fetches of a list are applied in        *)
(* arrival order with no check of issue order: each successful answer     *)
(* replaces the displayed list when it arrives, whatever was issued or    *)
(* answered before, so the list shown after both have settled is the      *)
(* answer that arrived last.                                              *)
C5_ArrivalOrder ==
  [][DeliveryStep /\ hist'.last.ok /\ hist'.last.by \in ListFetchHandlers =>
       ListOf(hist'.last.by, st') =
         IF hist'.last.by \in ArrayCheckedFetches /\ ~IsArray(hist'.last.resp)
         THEN ListOf(hist'.last.by, st)
         ELSE hist'.last.resp]_vars

(* Both fetches of the users list have settled, the one issued first (on  *)
(* mount) last, and its answer is the list displayed.                     *)
C5_Witness ==
  /\ comp = UM /\ net = <<>> /\ ~hist.failed /\ hist.issued = 3
  /\ hist.last.by = "UM.fetchUsers" /\ hist.last.id = 1
  /\ LengthPositive(hist.last.resp) /\ st.users = hist.last.resp

StoredToken == IF GetItem(localStorage) # <<>> THEN GetItem(localStorage)[1] ELSE NoToken

(* C6: in both App components, between handlers, the token in component   *)
(* state equals the value stored under the localStorage key "token" (a    *)
(* missing key counts as the empty token); so a re-mount starts with the  *)
(* token of the last successful signup or login, and empty after logout.  *)
C6_TokenMirrorsStorage == comp \in Apps => st.token = StoredToken

(* The App was reloaded after a login and starts with the token issued. *)
C6_Witness ==
  /\ comp \in Apps /\ ~hist.mounted /\ hist.submits > 0
  /\ st.token = Token2 /\ StoredToken = Token2

(* The actions the quest view offers for a displayed user quest. *)
CompleteOffered(s, uq) ==
  IF comp = GA THEN GA_completeOffered(s, uq) ELSE FA_completeOffered(s, uq)
ClaimOffered(s, uq) ==
  IF comp = GA THEN GA_claimOffered(s, uq) ELSE FA_claimOffered(s, uq)
QuestViewShown(s) ==
  IF comp = GA THEN GA_questListsShown(s) ELSE FA_questListsShown(s)

(* The request the step delivered an answer to. *)
Delivered == CHOOSE r \in {net[i] : i \in 1..Len(net)} : r.id = hist'.last.id

(* C7 as stated: in the quest view of both App components, for every      *)
(* displayed user quest, complete-step is offered exactly when its status *)
(* is in_progress and claim-reward exactly when it is completed (so none  *)
(* when it is claimed); and a complete-quest or claim-quest request is    *)
(* only issued for a quest displayed in the matching status.              *)
C7_ActionsMatchStatus ==
  [][/\ comp \in Apps /\ QuestViewShown(st) /\ LengthPositive(st.userQuests) =>
          \A i \in 1..Len(st.userQuests.items) :
            LET uq == st.userQuests.items[i]
            IN /\ CompleteOffered(st, uq) <=> uq.status = "in_progress"
               /\ ClaimOffered(st, uq) <=> uq.status = "completed"
     /\ \A k \in NewRequests :
          net'[k].by \in {"GA.completeQuest", "FA.completeQuest", "GA.claimQuest", "FA.claimQuest"} =>
            \E i \in 1..Len(st.userQuests.items) :
              /\ st.userQuests.items[i].quest_id = net'[k].body.quest_id
              /\ st.userQuests.items[i].status =
                   IF net'[k].by \in {"GA.completeQuest", "FA.completeQuest"}
                   THEN "in_progress" ELSE "completed"]_vars

UserFetches == {"GA.fetchUser", "FA.fetchUser"}
BalanceShown(s) == IF comp = GA THEN GA_infoBarShown(s) ELSE FA_logoutOffered(s) /\ s.user # <<>>

(* C8 as stated: the answer to every successful complete-quest or         *)
(* claim-quest request is followed by GET /users/{user_id} for the        *)
(* logged-in user, and when the answer to that GET arrives the gold and   *)
(* diamond balances displayed equal the values in it.                     *)
C8_BalanceRefreshed ==
  [][DeliveryStep /\ hist'.last.ok =>
       /\ hist'.last.by \in {"GA.completeQuest", "FA.completeQuest",
                             "GA.claimQuest", "FA.claimQuest"} =>
            \E k \in NewRequests :
              /\ net'[k].method = "GET" /\ net'[k].by \in UserFetches
              /\ st'.token # NoToken /\ st'.user # <<>>
              /\ net'[k].url[2] = st'.user[1].user_id
       /\ hist'.last.by \in UserFetches /\ Delivered.cl # NoClosure =>
            /\ BalanceShown(st')
            /\ st'.user[1].gold = hist'.last.resp.gold
            /\ st'.user[1].diamond = hist'.last.resp.diamond]_vars

(* The list fetches every component's render displays. *)
ListsDisplayed(c) ==
  CASE c = UM -> {"UM.fetchUsers"}
    [] c = AQ -> {"AQ.fetchUsers", "AQ.fetchQuests"}
    [] c = QM -> {"QM.fetchQuests"}
    [] c = RM -> {"RM.fetchRewards"}
    [] c = QS -> {"QS.fetchQuests"}
    [] c = GA -> {"GA.fetchRewards", "GA.fetchQuests", "GA.fetchUserQuests"}
    [] c = FA -> {"FA.fetchQuests", "FA.fetchUserQuests"}
    [] OTHER -> {}
MountStep == ~hist.mounted /\ hist'.mounted
FetchedOnMount == {net'[i].by : i \in NewRequests} \cap ListFetchHandlers

(* C9 as stated: every component that displays a list issues the GET for  *)
(* that list when it mounts, before any user action.                      *)
C9_Original == [][MountStep => FetchedOnMount = ListsDisplayed(comp)]_vars

(* C9, amended: UserManagement, AssignQuest, QuestManagement,             *)
(* RewardManagement and QuestStatus issue the GET for each list they      *)
(* display when they mount, before any user action; the two App           *)
(* components issue no list GET when they mount (at most GET /users/{id}  *)
(* for a stored token).                                                   *)
C9_FetchOnMount ==
  [][MountStep =>
       FetchedOnMount = IF comp \in Apps THEN {} ELSE ListsDisplayed(comp)]_vars

(* QuestManagement has mounted, its GET /quests is out and the user has   *)
(* done nothing yet.                                                      *)
C9_Witness ==
  /\ comp = QM /\ hist.mounted /\ hist.events = 0
  /\ \E i \in 1..Len(net) : net[i].by = "QM.fetchQuests" /\ net[i].method = "GET"

(* C10: there is no retry.  A submit that passes its handler's guard      *)
(* issues exactly one POST, the answer to a failed request issues         *)
(* nothing, and at any time the number of POSTs issued equals the number  *)
(* of submits that passed the guard.                                      *)
C10_NoRetry ==
  [][/\ hist'.posts = hist'.submits
     /\ SubmitStep =>
          Cardinality(NewRequests) = 1 /\ \A i \in NewRequests : net'[i].method = "POST"
     /\ DeliveryStep /\ ~hist'.last.ok => NewRequests = {}]_vars

(* The one addQuest POST has failed and nothing is in flight. *)
C10_Witness ==
  /\ hist.last.by = "QM.addQuest" /\ hist.last.id # 0 /\ ~hist.last.ok
  /\ net = <<>> /\ hist.posts = 1 /\ hist.submits = 1

----------------------------------------------------------------------------
(* The browser runs a pending setTimeout callback; nothing obliges the    *)
(* user to act or the network to answer.                                  *)
FairSpec == Spec /\ WF_vars(GA_timerFires)

FA_failureTexts ==
  {p \o ErrText(e) :
     p \in {"Signup failed: ", "Login failed: ", "Assign quest failed: ",
            "Complete quest failed: ", "Claim quest failed: "},
     e \in Errors}
SU_failureTexts == {"Signup failed."} \cup {e.detail : e \in {HttpDetail}}
FailureDisplayed ==
  CASE comp = GA -> st.message.type = "error"
    [] comp = FA -> st.message \in FA_failureTexts
    [] comp = SU -> st.message \in SU_failureTexts
    [] OTHER -> FALSE

(* C11 as stated: every failure message the client displays is eventually *)
(* cleared without any further user action.                               *)
C11_Original == FailureDisplayed ~> ~FailureDisplayed

(* C11, amended: every failure message the gateway App displays is        *)
(* eventually cleared without any further user action (by the timer of    *)
(* showMessage); a message of the fe-quest App or of Signup is never      *)
(* cleared: it stays until a handler sets another message or the page is  *)
(* reloaded.                                                              *)
C11_GatewayMessagesClear ==
  /\ (comp = GA /\ FailureDisplayed) ~> (comp = GA /\ st.message = NoMessage)
  /\ [][hist'.mounted /\ comp \in {FA, SU} /\ st.message # ""
          => st'.message # ""]_vars

(* The gateway App shows a failure message and its timer is pending. *)
C11_Witness == comp = GA /\ FailureDisplayed /\ st.timers > 0

AuthHandlers ==
  {"SU.handleSignup", "GA.handleSignup", "GA.handleLogin", "FA.handleSignup", "FA.handleLogin"}

(* C12 as stated: the body of every signup request and of every login     *)
(* request the client issues is made of exactly the fields username and   *)
(* password.                                                              *)
C12_AuthBodyFields ==
  \A i \in 1..Len(net) :
    net[i].by \in AuthHandlers => DOMAIN net[i].body = {"username", "password"}

(* The status names, as strings and as the text a number would read as. *)
StatusNames == {"new", "not_new", "banned"}
StatusNameTexts ==
  {<<"n", "e", "w">>, <<"n", "o", "t", "_", "n", "e", "w">>, <<"b", "a", "n", "n", "e", "d">>}
(* addUser sends a number (read here through its text), signup a string. *)
StatusSentIsName(r) ==
  IF r.by = "UM.addUser" THEN ToStr(r.body.status) \in StatusNameTexts
  ELSE r.body.status \in StatusNames

(* C13 as stated: every user status value the client sends in a request   *)
(* (POST /users, signup) is one of new, not_new, banned.                  *)
C13_StatusValues ==
  \A i \in 1..Len(net) :
    "status" \in DOMAIN net[i].body => StatusSentIsName(net[i])

UserQuestFetches == {"GA.fetchUserQuests", "FA.fetchUserQuests"}
(* The step delivers a successful user-quests response and the list shown *)
(* afterwards is that response.                                           *)
ReplacedByResponse ==
  /\ DeliveryStep /\ hist'.last.ok
  /\ hist'.last.by \in UserQuestFetches
  /\ st'.userQuests = hist'.last.resp
(* The step is a logout: no response arrives, token and user are dropped  *)
(* and the list is empty.                                                 *)
EmptiedByLogout ==
  /\ ~DeliveryStep
  /\ st'.token = NoToken /\ st'.user = <<>>
  /\ st'.userQuests = Arr(<<>>)

(* C14: while an App stays mounted, userQuests (and so the status and     *)
(* progress of every displayed user quest) changes only in a step that    *)
(* replaces the list by a user-quests response or in a logout that        *)
(* empties it; no handler edits an entry locally.                         *)
C14_ListOnlyFromServer ==
  [][hist.mounted /\ hist'.mounted /\ comp \in Apps
       /\ st'.userQuests # st.userQuests
     => ReplacedByResponse \/ EmptiedByLogout]_vars
(* A fetched list with a completed quest is shown: the transition came    *)
(* with the list.                                                         *)
C14_Witness ==
  /\ comp \in Apps /\ hist.mounted
  /\ hist.last.ok /\ hist.last.by \in UserQuestFetches
  /\ IsArray(st.userQuests) /\ LengthPositive(st.userQuests)
  /\ st.userQuests = hist.last.resp
  /\ st.userQuests.items[1].status = "completed"

TokenHandlers == {"GA.handleSignup", "GA.handleLogin", "FA.handleSignup", "FA.handleLogin"}
(* The step stores the token of a successful signup or login response. *)
TokenStored ==
  /\ DeliveryStep /\ hist'.last.ok /\ hist'.last.by \in TokenHandlers
  /\ localStorage' = SetItem(localStorage, hist'.last.resp.access_token)
(* The step hands the user_id of a successful signup response to the      *)
(* parent of Signup.                                                      *)
UserIdHandedOver ==
  /\ DeliveryStep /\ hist'.last.ok /\ hist'.last.by = "SU.handleSignup"
  /\ st'.parentUserId = hist'.last.resp.user_id

(* C15 as stated: no handler changes anything but the state of its own    *)
(* component and the localStorage key "token"; in Signup, what the parent *)
(* holds never changes.                                                   *)
C15_Original ==
  [][hist'.mounted /\ comp = SU => st'.parentUserId = st.parentUserId]_vars

(* C15: localStorage (the key "token") is written only by the two Apps,   *)
(* which store the token of a signup or login response or remove it; the  *)
(* one change outside a component's own state is Signup handing the       *)
(* user_id of a successful signup to its parent through onUserIdSet.      *)
C15_OwnStateAndToken ==
  [][/\ localStorage' # localStorage =>
          comp \in Apps /\ (TokenStored \/ localStorage' = EmptyStorage)
     /\ hist'.mounted /\ comp = SU /\ st'.parentUserId # st.parentUserId =>
          UserIdHandedOver]_vars
(* Signup has handed a user_id to its parent. *)
C15_Witness == comp = SU /\ st.parentUserId # 0 /\ localStorage = EmptyStorage

(* Claims about the quest-processing service (ServiceSpec). *)

Assigned == srv.uq # <<>>
(* The step is an answered call of the operation. *)
Call(op) == srv' # srv /\ srv'.last = [op |-> op, ok |-> TRUE]

(* C16: each complete-quest call on the assigned quest of streak N raises *)
(* progress by exactly 1; the status is in_progress exactly while         *)
(* progress < N, and the call that makes progress N makes it completed.   *)
C16_StreakProgress ==
  /\ [](Assigned =>
          /\ srv.uq[1].progress \in 0..srv.quest.streak
          /\ srv.uq[1].status = "in_progress" <=> srv.uq[1].progress < srv.quest.streak)
  /\ [][Call("complete-quest") =>
          /\ srv'.uq[1].progress = srv.uq[1].progress + 1
          /\ srv'.uq[1].status =
               IF srv'.uq[1].progress = srv.quest.streak
               THEN "completed" ELSE "in_progress"]_vars
(* The last of MaxStreak completions has just completed the quest. *)
C16_Witness ==
  /\ Assigned /\ srv.last.op = "complete-quest"
  /\ srv.quest.streak = MaxStreak
  /\ srv.uq[1].progress = MaxStreak /\ srv.uq[1].status = "completed"

OtherItem(item) == CHOOSE o \in REWARD_ITEMS : o # item

(* C17: a claim-quest call changes the balance only if the user quest is  *)
(* completed; the call then makes it claimed and raises the balance of    *)
(* the quest's reward_item by exactly reward_qty, the other balance       *)
(* staying as it was; a refused claim changes neither quest nor balance.  *)
C17_ClaimGrantsCompleted ==
  [][srv'.last.op = "claim-quest" =>
       IF Assigned /\ srv.uq[1].status = "completed"
       THEN /\ srv'.last.ok
            /\ srv'.uq[1] = [srv.uq[1] EXCEPT !.status = "claimed"]
            /\ srv'.balance[srv.quest.reward_item] =
                 srv.balance[srv.quest.reward_item] + srv.quest.reward_qty
            /\ srv'.balance[OtherItem(srv.quest.reward_item)] =
                 srv.balance[OtherItem(srv.quest.reward_item)]
       ELSE srv'.uq = srv.uq /\ srv'.balance = srv.balance]_vars
(* A claim of the completed quest was answered: the quest is claimed and  *)
(* the reward was granted once.                                           *)
C17_Witness ==
  /\ Assigned /\ srv.last = [op |-> "claim-quest", ok |-> TRUE]
  /\ srv.uq[1].status = "claimed" /\ srv.granted = 1

(* The step grants the reward of the quest once. *)
Granted ==
  /\ srv'.granted = srv.granted + 1
  /\ srv'.balance[srv.quest.reward_item] =
       srv.balance[srv.quest.reward_item] + srv.quest.reward_qty
NothingGranted == srv'.granted = srv.granted /\ srv'.balance = srv.balance

(* C18: for a quest with auto_claim true the reward is granted by the     *)
(* complete-quest call that reaches the streak (and by no other           *)
(* completion), no claim-quest call being made; for a quest with          *)
(* auto_claim false no completion grants anything: the balance changes    *)
(* only in a claim-quest call.                                            *)
C18_AutoClaim ==
  /\ [][Call("complete-quest") =>
          IF srv.quest.auto_claim /\ srv'.uq[1].progress = srv.quest.streak
          THEN Granted ELSE NothingGranted]_vars
  /\ [][~srv.quest.auto_claim /\ ~NothingGranted =>
          srv'.last = [op |-> "claim-quest", ok |-> TRUE]]_vars
  /\ [](Assigned /\ srv.quest.auto_claim =>
          srv.granted = IF srv.uq[1].progress = srv.quest.streak THEN 1 ELSE 0)
(* An auto_claim quest of the longest streak was completed and its reward *)
(* granted, the last call being the completion.                           *)
C18_Witness ==
  /\ Assigned /\ srv.quest.auto_claim /\ srv.quest.streak = MaxStreak
  /\ srv.last.op = "complete-quest"
  /\ srv.uq[1].progress = MaxStreak /\ srv.granted = 1

(* The forms a successful POST leaves as typed. *)
KeptForms == {"SU.handleSignup", "FA.handleSignup", "FA.handleLogin"}
InitialForm(by) == FormOf(by, InitState(comp, localStorage))
FormAndListsKept(by) ==
  /\ FormOf(by, st') = FormOf(by, st)
  /\ \A f \in ListsDisplayed(comp) : ListOf(f, st') = ListOf(f, st)

(* C19 as stated: the failure of a form's POST leaves the form's inputs   *)
(* and the displayed lists as they were; the success of a form's POST     *)
(* leaves every field of the form at its initial value.                   *)
C19_Original ==
  [][DeliveryStep /\ hist'.last.by \in FormHandlers =>
       IF hist'.last.ok THEN FormOf(hist'.last.by, st') = InitialForm(hist'.last.by)
       ELSE FormAndListsKept(hist'.last.by)]_vars

(* C19: the failure of a form's POST leaves the form's inputs and the     *)
(* displayed lists as they were; the success of a form's POST leaves      *)
(* every field of the form at its initial value, except in Signup and in  *)
(* the signup and login forms of the fe-quest App, which keep what was    *)
(* typed.                                                                 *)
C19_FailureKeepsSuccessResets ==
  [][DeliveryStep /\ hist'.last.by \in FormHandlers =>
       IF ~hist'.last.ok \/ hist'.last.by \in KeptForms
       THEN FormOf(hist'.last.by, st') = FormOf(hist'.last.by, st)
            /\ (~hist'.last.ok => FormAndListsKept(hist'.last.by))
       ELSE FormOf(hist'.last.by, st') = InitialForm(hist'.last.by)]_vars
(* The POST of an edited form has just failed and the form is as typed. *)
C19_Witness ==
  /\ hist.last.id # 0 /\ ~hist.last.ok /\ hist.last.by \in FormHandlers
  /\ FormOf(hist.last.by, st) # InitialForm(hist.last.by)

(* What handleLogout leaves: no token in state or storage, no user, no    *)
(* user quests.                                                           *)
LoggedOut ==
  /\ comp \in Apps /\ hist.mounted
  /\ st.token = NoToken /\ localStorage = EmptyStorage
  /\ st.user = <<>> /\ st.userQuests = Arr(<<>>)
(* The step after which handleLogout has just run. *)
LogoutStep ==
  /\ comp \in Apps /\ hist.mounted /\ ~DeliveryStep
  /\ st.token # NoToken /\ st'.token = NoToken
(* A signup or login is submitted in the step. *)
AuthSubmitted == \E i \in NewRequests : net'[i].by \in TokenHandlers

(* C20 as stated: handleLogout leaves the App logged out; a logged-out    *)
(* App stays so in every step in which no signup or login is submitted    *)
(* or answered, also when other responses arrive; and user is non-null    *)
(* only while the token is non-empty.                                     *)
C20_LogoutStays ==
  /\ [][LogoutStep => LoggedOut']_vars
  /\ [][LoggedOut /\ hist'.mounted /\ ~AuthSubmitted
          /\ ~(DeliveryStep /\ hist'.last.ok /\ hist'.last.by \in TokenHandlers)
        => LoggedOut']_vars
  /\ [](comp \in Apps /\ st.user # <<>> => st.token # NoToken)

(* The handlers of the two Apps that need a user. *)
UserHandlers ==
  {"GA.assignQuest", "GA.completeQuest", "GA.claimQuest", "GA.fetchUserQuests",
   "FA.assignQuest", "FA.completeQuest", "FA.claimQuest", "FA.fetchUserQuests"}
(* The step reports that login is needed: showMessage in the gateway App, *)
(* alert in the fe-quest App.                                             *)
LoginNeededReported ==
  IF comp = GA
  THEN st'.message = [text |-> "Please log in first", type |-> "error"]
       /\ st'.timers = st.timers + 1
  ELSE st'.alerts > st.alerts
SessionKept ==
  /\ st'.token = st.token /\ st'.user = st.user
  /\ st'.quests = st.quests /\ st'.userQuests = st.userQuests

(* C21 as stated: in both Apps, while user is null no request of          *)
(* assignQuest, completeQuest, claimQuest or fetchUserQuests is issued,   *)
(* and the step in which one of them reports that login is needed issues  *)
(* no request and leaves token, user, quests and userQuests unchanged.    *)
C21_NoRequestWithoutUser ==
  [][hist.mounted /\ hist'.mounted /\ comp \in Apps /\ st.user = <<>> =>
       /\ \A i \in NewRequests : net'[i].by \notin UserHandlers
       /\ ~DeliveryStep /\ LoginNeededReported => NewRequests = {} /\ SessionKept]_vars

(* The token the token effect of the step runs on, if the step is the     *)
(* mount (the stored token) or sets a token other than the current one    *)
(* (the access_token of a signup or login response); <<>> otherwise.      *)
GA_authHandlers == {"GA.handleSignup", "GA.handleLogin"}
TokenSeen ==
  IF MountStep THEN GetItem(localStorage)
  ELSE IF DeliveryStep /\ hist'.last.ok /\ hist'.last.by \in GA_authHandlers
          /\ hist'.last.resp.access_token # st.token
       THEN <<hist'.last.resp.access_token>>
       ELSE <<>>
Decoded(token) == DecodePayload(SplitPayload(token))
NewUserFetches == {i \in NewRequests : net'[i].by = "GA.fetchUser"}

(* C22: in the gateway App, a token whose payload cannot be decoded is    *)
(* cleared from state and storage in the step that sets it, and no user   *)
(* fetch is issued for it; a token that decodes to a user_id makes the    *)
(* step issue exactly one GET /users/{user_id}; a token without user_id   *)
(* is kept and fetches nothing; a mounted App never holds an undecodable  *)
(* token.                                                                 *)
C22_TokenEffect ==
  /\ [][hist'.mounted /\ comp = GA /\ TokenSeen # <<>> =>
          LET decoded == Decoded(TokenSeen[1])
          IN IF decoded.threw
             THEN /\ st'.token = NoToken /\ localStorage' = EmptyStorage
                  /\ NewUserFetches = {}
             ELSE /\ st'.token = TokenSeen[1]
                  /\ Cardinality(NewUserFetches) = IF decoded.user_id # 0 THEN 1 ELSE 0
                  /\ \A i \in NewUserFetches :
                       /\ net'[i].method = "GET"
                       /\ net'[i].url = <<API_GATEWAY_URL \o "/users/", decoded.user_id>>]_vars
  /\ [](comp = GA /\ hist.mounted /\ st.token # NoToken => ~Decoded(st.token).threw)
(* A login was answered with an undecodable token, which is gone. *)
C22_Witness ==
  /\ comp = GA /\ hist.last.ok /\ hist.last.by \in GA_authHandlers
  /\ Decoded(hist.last.resp.access_token).threw
  /\ st.token = NoToken /\ localStorage = EmptyStorage

ArrayCheckedComponents == {UM, QM, RM, AQ}

(* C23: in UserManagement, QuestManagement, RewardManagement and          *)
(* AssignQuest every list of the state is an array in every reachable     *)
(* state, and the answer to a list fetch that is an error or whose body   *)
(* is not an array leaves the list exactly as it was.                     *)
C23_ListsStayArrays ==
  /\ [](comp \in ArrayCheckedComponents =>
          \A f \in ListsDisplayed(comp) : IsArray(ListOf(f, st)))
  /\ [][DeliveryStep /\ hist'.last.by \in ArrayCheckedFetches
          /\ (hist'.last.ok => ~IsArray(hist'.last.resp))
        => ListOf(hist'.last.by, st') = ListOf(hist'.last.by, st)]_vars
(* A response that is not an array has arrived while a fetched list was   *)
(* displayed, and the list is still displayed.                            *)
C23_Witness ==
  /\ comp \in ArrayCheckedComponents
  /\ hist.last.ok /\ hist.last.by \in ArrayCheckedFetches
  /\ ~IsArray(hist.last.resp)
  /\ LengthPositive(ListOf(hist.last.by, st))

(* The panels of the gateway App that the render shows. *)
GA_panelsShown(s) ==
  {p \in {"admin", "quests", "auth"} :
     CASE p = "admin" -> GA_adminPanelShown(s)
       [] p = "quests" -> GA_questPanelShown(s)
       [] p = "auth" -> GA_authPanelShown(s)}

(* C24 as stated: in every reachable state of the gateway App exactly one *)
(* of the three panels (admin, quests, auth) is rendered, also after a    *)
(* successful signup made from the auth tab.                              *)
C24_ExactlyOnePanel ==
  comp = GA /\ hist.mounted => Cardinality(GA_panelsShown(st)) = 1

(* C25 as stated: in every reachable state of the gateway App in which    *)
(* the token is non-empty the Logout control is rendered, also when the   *)
(* user fetch fails or the token's payload has no user_id.                *)
C25_LogoutAlwaysOffered ==
  comp = GA /\ hist.mounted /\ st.token # NoToken => GA_logoutOffered(st)

(* The timers of showMessage all run 5 seconds, so they fire in the order *)
(* they were set: the timer of the message displayed, the newest, is the  *)
(* last of the pending ones.                                              *)
NewerMessageShown == st'.timers > st.timers /\ st'.message # NoMessage
OwnTimerFired == st.timers = 1 /\ st'.timers = 0 /\ st'.message = NoMessage

(* C26 as stated: in the gateway App a displayed message changes only     *)
(* when a newer message replaces it or when its own timer, the last one   *)
(* pending, fires; the timer of an earlier message never clears it.       *)
C26_OwnTimerClears ==
  [][hist.mounted /\ hist'.mounted /\ comp = GA
       /\ st.message # NoMessage /\ st'.message # st.message
     => NewerMessageShown \/ OwnTimerFired]_vars

(* The user id a QuestStatus fetch was issued for. *)
FetchedFor(r) == r.url[2]
(* Every fetch for the current userId prop has been answered, none with   *)
(* an error.                                                              *)
CurrentAnswered ==
  /\ ~hist.failed
  /\ \A i \in 1..Len(net) : FetchedFor(net[i]) # st.userId

(* C27 as stated: in QuestStatus, once the fetch for the current userId   *)
(* prop has been answered, the answer to a fetch issued for an earlier    *)
(* userId does not replace the quests displayed.                          *)
C27_StaleResponseIgnored ==
  [][hist.mounted /\ comp = QS /\ DeliveryStep /\ hist'.last.ok
       /\ FetchedFor(Delivered) # st.userId /\ CurrentAnswered
     => st'.quests = st.quests]_vars

(* C28 as stated: in the fe-quest App an alert is raised only in a step   *)
(* taken with user null, and the step in which claimQuest issues the      *)
(* claim-quest POST raises none.                                          *)
C28_AlertOnlyWithoutUser ==
  [][hist.mounted /\ hist'.mounted /\ comp = FA =>
       /\ st'.alerts > st.alerts => st.user = <<>>
       /\ (\E i \in NewRequests : net'[i].by = "FA.claimQuest") =>
            st'.alerts = st.alerts]_vars

====
